---- MODULE Spec2Model ----
(***************************************************************************)
(* A model of bob's batch orchestrator (bob/cook.py) together with the     *)
(* parts of bob/test.py and bob/errors.py that Batch.run depends on.       *)
(*                                                                         *)
(* Batch.run is modelled statement by statement (pc holds the line of      *)
(* cook.py about to execute), because signals are handled between          *)
(* statements and because the order of the calls made to the rMake         *)
(* service is what the properties are about.  Every call that leaves the   *)
(* process is appended to the history variable calls.                      *)
(***************************************************************************)
EXTENDS Integers, Sequences, FiniteSets, TLC

\* ------------------------------------------------------------------ bounds
MaxAdds == 2        \* addTrove calls made on one Batch
MaxJobId == 1       \* the service assigns a job id in 0 .. MaxJobId
MaxTests == 2       \* <testcase> elements of the harvested JUnit report
MaxSignals == 2     \* termination signals delivered to the process
MaxStops == 1       \* direct Batch.stop() calls made by the driver
MaxProcs == 3       \* processes alive or dead: the main one and the forked ones
MaxLines == 3       \* lines of a recipe
MaxUnits == 2       \* units (troves) of a job whose logs are written
MaxItems == 2       \* items of one log of one unit

\* --------------------------------------------------------- bob/test.py
TEST_NONE == -1
TEST_OK == 0
TEST_FAIL == 1
TEST_ERROR == 2

Max(a, b) == IF a >= b THEN a ELSE b

\* A Python value that may be None: <<>> is None, <<v>> is the value v.
None == <<>>
Some(v) == <<v>>
IsNone(x) == x = <<>>
Val(x) == x[1]

\* Truth value of an optional integer, as `if self._jobId:` computes it:
\* None is false, and so is the integer 0.
Truthy(x) == ~IsNone(x) /\ Val(x) # 0

TestNames == {"t1", "t2"}
JUnitKinds == {"ok", "failure", "error"}

\* TestSuite(): no tests, status TEST_NONE.
NewTestSuite == [tests |-> [n \in {} |-> TEST_NONE], status |-> TEST_NONE]

\* TestCase.add_run as far as the status goes: max of the old status (TEST_NONE
\* for a new TestCase) and the run's status.
CaseStatusAfter(suite, name, status) ==
    Max(IF name \in DOMAIN suite.tests THEN suite.tests[name] ELSE TEST_NONE,
        status)

\* TestSuite.add_test
add_test_KeepStatus(suite, name, status) ==
    [tests |-> [n \in DOMAIN suite.tests \cup {name} |->
                    IF n = name THEN CaseStatusAfter(suite, name, status)
                    ELSE suite.tests[n]],
     status |-> suite.status]
add_test(suite, name, status) ==
    [tests |-> [n \in DOMAIN suite.tests \cup {name} |->
                    IF n = name THEN CaseStatusAfter(suite, name, status)
                    ELSE suite.tests[n]],
     status |-> Max(suite.status, status)]

\* The status branch of TestSuite.load_junit for one <testcase>.  The name
\* TEST_FAILURE is defined nowhere in bob/test.py, so the <failure> branch
\* raises NameError before add_test is reached.
JUnitStatus(kind) ==
    IF kind = "error" THEN [raised |-> FALSE, status |-> TEST_ERROR]
    ELSE IF kind = "failure" THEN [raised |-> TRUE, status |-> TEST_NONE]
    ELSE [raised |-> FALSE, status |-> TEST_OK]

\* TestSuite.load_junit over a report (a sequence of <<name, kind>>), from
\* element i on: the suite after the whole report, or the NameError.
RECURSIVE load_junit(_, _, _)
load_junit(suite, report, i) ==
    IF i > Len(report) THEN [raised |-> FALSE, suite |-> suite]
    ELSE LET st == JUnitStatus(report[i][2])
         IN  IF st.raised THEN [raised |-> TRUE, suite |-> suite]
             ELSE load_junit(add_test(suite, report[i][1], st.status),
                             report, i + 1)

\* test.processTests for a job whose testinfo trove carries `report`.
processTests(report) == load_junit(NewTestSuite, report, 1)

\* TestSuite.isSuccessful
isSuccessful_Lax(suite) == suite.status <= TEST_ERROR
isSuccessful(suite) == suite.status <= TEST_OK

\* The statuses a run or a test is recorded with.
Statuses == {TEST_OK, TEST_FAIL, TEST_ERROR}

\* The configurations a test is run under: dicts of factor -> value.  One of
\* them lacks a factor that the others have.
ConfigKeys == {"arch", "python"}
ConfigValues == {"x86", "x86_64"}
Configurations ==
    [ConfigKeys -> ConfigValues] \cup {[k \in {"arch"} |-> "x86"]}

\* TestCase(name): status TEST_NONE, no runs.  A run is kept by its status;
\* its duration and message play no part in what is modelled.
NewTestCase == [status |-> TEST_NONE, runs |-> [c \in {} |-> TEST_NONE]]

\* TestCase.add_run
add_run(case, status, configuration) ==
    [runs |-> (configuration :> status) @@ case.runs,
     status |-> Max(case.status, status)]

\* TestCase.get_failing_runs: the configurations of the failing runs.
get_failing_runs(runs) == {c \in DOMAIN runs : runs[c] > TEST_OK}

\* The values of one factor that failing_configurations holds responsible:
\* `failing -= passing`.
FailingValues_All(factor) == factor.failing
FailingValues(factor) == factor.failing \ factor.passing

\* TestCase.failing_configurations: the sentence returned and the (factor,
\* value) pairs it lists.
failing_configurations(runs) ==
    IF Cardinality(DOMAIN runs) = Cardinality(get_failing_runs(runs))
    THEN [text |-> "Failed in all configurations", pairs |-> {}]
    ELSE LET keys == UNION {DOMAIN c : c \in DOMAIN runs}
             factors == [k \in keys |->
                 [passing |-> {c[k] : c \in {d \in DOMAIN runs :
                                   k \in DOMAIN d /\ runs[d] <= TEST_OK}},
                  failing |-> {c[k] : c \in {d \in DOMAIN runs :
                                   k \in DOMAIN d /\ ~(runs[d] <= TEST_OK)}}]]
             failing_factors ==
                 UNION {{<<k, v>> : v \in FailingValues(factors[k])} : k \in keys}
         IN  IF failing_factors # {}
             THEN [text |-> "Failed in these configurations: ",
                   pairs |-> failing_factors]
             ELSE [text |-> "Failed in various configurations", pairs |-> {}]

\* The JUnit reports a job can carry.
Reports ==
    UNION {[1..n -> TestNames \X JUnitKinds] : n \in 0..MaxTests}

\* ------------------------------------------------------- bob/errors.py
JobFailedError(jobId, why) ==
    [exc |-> "JobFailedError", jobId |-> jobId, why |-> why]
TestFailureError == [exc |-> "TestFailureError"]
DeclaredErrors ==
    {"JobFailedError", "TestFailureError", "CommitFailedError",
     "DependencyLoopError"}

\* ------------------------------------------------ the plan and its packages
\* A macro value is a sequence of tokens; a token that is a key of Placeholder
\* stands for the reference %(key)s, every other token is literal text.
Placeholder == ("%(ver)s" :> "ver") @@ ("%(arch)s" :> "arch")

EmptyDict == [k \in {} |-> <<>>]

\* helper.plan.macros and helper.plan.skipMacros
PlanMacros == ("ver" :> <<"1.0">>) @@ ("arch" :> <<"x86">>)
PlanSkipMacros == {"arch"}

\* value % _macros: every reference is replaced by the macro's value.
RECURSIVE Interpolate(_, _)
Interpolate(value, macros) ==
    IF value = <<>> THEN <<>>
    ELSE LET t == Head(value)
         IN  (IF t \in DOMAIN Placeholder THEN macros[Placeholder[t]] ELSE <<t>>)
             \o Interpolate(Tail(value), macros)

\* plan.targets[packageName]: the target configuration of a package, or None.
TargetConfig(packageName) ==
    CASE packageName = "foo" ->
            Some([macros |-> ("tag" :> <<"r", "%(ver)s">>) @@ ("arch" :> <<"arm">>),
                  noBuild |-> FALSE])
      [] packageName = "baz" -> Some([macros |-> EmptyDict, noBuild |-> TRUE])
      [] packageName = "product-definition" ->
            Some([macros |-> EmptyDict, noBuild |-> FALSE])
      [] OTHER -> None

\* BobPackage.getPackageName: the name without its component.
PackageName(name) ==
    CASE name = "foo:source" -> "foo"
      [] name = "bar:source" -> "bar"
      [] name = "baz:source" -> "baz"
      [] name = "product-definition:source" -> "product-definition"
      [] name = "platform-definition:source" -> "platform-definition"

Pkg(name, version, flavors) ==
    [name |-> name, version |-> version, flavors |-> flavors]

\* The BobPackage objects the driver may add.
Packages ==
    {Pkg("foo:source", "v1", <<"x86", "x86_64">>),
     Pkg("foo:source", "v1", <<"x86">>),
     Pkg("foo:source", "v2", <<"x86">>),
     Pkg("bar:source", "v1", <<"x86_64", "x86_64">>),
     Pkg("baz:source", "v1", <<"x86">>),
     Pkg("product-definition:source", "v1", <<"x86">>),
     Pkg("platform-definition:source", "v1", <<"x86">>)}

\* ---------------------------------------- bob.flavors and bob.util (no source)
\* flavors.reduce_flavors: drops redundant variants, keeps the survivors' order.
RECURSIVE reduce_flavors(_, _, _)
reduce_flavors(packageName, config, flavorList) ==
    IF flavorList = <<>> THEN <<>>
    ELSE LET n == Len(flavorList)
             init == reduce_flavors(packageName, config, SubSeq(flavorList, 1, n - 1))
         IN  IF \E i \in 1..(n - 1) : flavorList[i] = flavorList[n]
             THEN init ELSE Append(init, flavorList[n])

\* flavors.guess_search_flavors: most specific first.
guess_search_flavors(buildFlavor) == <<buildFlavor, "generic">>

\* ContextCache.get: the context registered for the key, registering a new one
\* when the key is new.  A cache is the sequence of its keys; a context is named
\* by the position of its key.
ContextCacheGet(cache, key) ==
    IF \E i \in 1..Len(cache) : cache[i] = key
    THEN [cache |-> cache,
          context |-> CHOOSE i \in 1..Len(cache) : cache[i] = key]
    ELSE [cache |-> Append(cache, key), context |-> Len(cache) + 1]

\* pushStopHandler / popStopHandler: a stack of handlers, the top one installed.
pushStopHandler(stack, handler) == Append(stack, handler)
popStopHandler(stack) == SubSeq(stack, 1, Len(stack) - 1)

\* -------------------------------------------------- bob/cook.py: Batch.addTrove
\* The macros of the package's contexts: every target-config macro whose key is
\* not skipped, interpolated against the plan's macros.
AddTroveMacros_KeepSkipped(config) ==
    IF IsNone(config) THEN EmptyDict
    ELSE [k \in DOMAIN Val(config).macros |->
              Interpolate(Val(config).macros[k], PlanMacros)]
AddTroveMacros(config) ==
    IF IsNone(config) THEN EmptyDict
    ELSE [k \in DOMAIN Val(config).macros \ PlanSkipMacros |->
              Interpolate(Val(config).macros[k], PlanMacros)]

AddTroveNoBuild_NameOnly(bobTrove, config) ==
    PackageName(bobTrove.name) \in {"product-definition", "platform-definition"}
AddTroveNoBuild(bobTrove, config) ==
    \/ PackageName(bobTrove.name) \in {"product-definition", "platform-definition"}
    \/ (~IsNone(config) /\ Val(config).noBuild)

\* The context a flavor of the package is built in.
AddTroveContext_Fresh(cache, buildFlavor, macros) ==
    [cache |-> Append(cache, <<buildFlavor, guess_search_flavors(buildFlavor), macros>>),
     context |-> Len(cache) + 1]
AddTroveContext(cache, buildFlavor, macros) ==
    ContextCacheGet(cache, <<buildFlavor, guess_search_flavors(buildFlavor), macros>>)

\* The loop over the reduced flavors, from flavor i on.  b is the batch:
\* [bobTroves, troves, contextCache].
RECURSIVE AddTroveLoop(_, _, _, _, _)
AddTroveLoop(b, bobTrove, newFlavors, macros, i) ==
    IF i > Len(newFlavors) THEN b
    ELSE LET got == AddTroveContext(b.contextCache, newFlavors[i], macros)
         IN  AddTroveLoop(
                 [bobTroves |-> Append(b.bobTroves, bobTrove),
                  troves |-> b.troves \cup
                      {<<bobTrove.name, bobTrove.version, newFlavors[i], got.context>>},
                  contextCache |-> got.cache],
                 bobTrove, newFlavors, macros, i + 1)

\* Batch.addTrove on batch b.
addTrove(b, bobTrove) ==
    LET config == TargetConfig(PackageName(bobTrove.name))
        macros == AddTroveMacros(config)
    IN  IF AddTroveNoBuild(bobTrove, config) THEN b
        ELSE AddTroveLoop(b, bobTrove,
                 reduce_flavors(PackageName(bobTrove.name), config, bobTrove.flavors),
                 macros, 1)

\* Batch.isEmpty
isEmpty(troves) == troves = {}

\* ------------------------------------------------------ bob/cook.py: Batch.run
\* What job.isFailed(), isFinished(), iterBuiltTroves() and isCommitting()
\* answer on the job object that getJob returned.
JobStates ==
    [failed : BOOLEAN, finished : BOOLEAN, built : 0..1, committing : BOOLEAN]

\* bob.commit (no source): commit.commit returns a mapping or raises an error,
\* which may or may not be one of bob's declared kinds.
Mappings == {"map1", "map2"}
CommitErrors(jobId) ==
    {[exc |-> "RepositoryError", msg |-> "repository locked"],
     [exc |-> "CommitFailedError", jobId |-> jobId, why |-> "no troves committed"]}

\* str(e_value): BobError.__str__ fills the class template with the fields; any
\* other error prints its message.
Str(e) ==
    IF e.exc = "CommitFailedError"
    THEN <<"rMake job", ToString(e.jobId), "failed to commit:", e.why>>
    ELSE <<e.msg>>

\* The error condition checked after the logs were written: the reason of the
\* first condition that applies, or None.
JobCheck_BuiltFirst(job) ==
    IF job.built = 0 THEN Some("Job built no troves")
    ELSE IF job.failed THEN Some("Job failed")
    ELSE IF ~job.finished THEN Some("Job not done")
    ELSE None
JobCheck(job) ==
    IF job.failed THEN Some("Job failed")
    ELSE IF ~job.finished THEN Some("Job not done")
    ELSE IF job.built = 0 THEN Some("Job built no troves")
    ELSE None

\* cfg.isolateTroves: exactly one distinct name in the work set.
IsolateTroves(troves) == Cardinality({x[1] : x \in troves}) = 1

NoOutcome == [kind |-> "none"]
Raised(e) == [kind |-> "raise", error |-> e]
Returned(v) == [kind |-> "return", value |-> v]

\* ------------------------------------------------------------- the processes
\* A process: the one that forked it (0 for the main process), whether it is
\* alive and how it ended, its own disposition of SIGTERM (a forked process
\* inherits the handler until it resets it; the main process has the top of
\* handlers), where its watchdog body stands (lines 55-62 of stopJob, "run" for
\* the main process), and the stopJob calls that interrupted it, innermost last.
MainProcess ==
    [parent |-> 0, status |-> "alive", exit |-> "", sigterm |-> "", wpc |-> "run",
     reaped |-> FALSE, frames |-> <<>>]

\* A stopJob call: the line it stands at, the watchdog it forked (0 before the
\* fork), and what it has done so far.
NewFrame == [pc |-> "L52", pid |-> 0, stopRequested |-> FALSE, stoodDown |-> FALSE]

Top(seq) == seq[Len(seq)]
ReplaceTop(seq, x) == [seq EXCEPT ![Len(seq)] = x]

VARIABLES
    self_bobTroves,   \* Batch._bobTroves: the packages added, in order
    self_troves,      \* Batch._troves: the work set of (name, version, flavor, context)
    contextCache,     \* Batch._contextCache
    self_jobId,       \* Batch._jobId
    self_testSuite,   \* Batch._testSuite
    handlers,         \* bob.util's stack of stop handlers
    pc,               \* the statement of Batch.run about to execute
    jobId,            \* run's local jobId
    job,              \* run's local job, as returned by getJob
    mapping,          \* run's local mapping
    e_value,          \* the error caught by run's except clause
    outcome,          \* how run() ended
    calls,            \* history: the calls made to rMake, bob.test and bob.commit
    added,            \* history: the packages addTrove was called with
    monitored,        \* history: monitorJob has returned
    procs,            \* the processes: procs[1] runs the driver, the others were forked
    signals,          \* history: termination signals delivered from outside
    stops             \* history: the Batch.stop() calls and what each one did

\* The objects of bob/test.py when they are driven directly.
VARIABLES
    tc,               \* a TestCase: its status and its runs
    tc_report,        \* what failing_configurations last returned for tc, or None
    ts,               \* a TestSuite: the status of each of its tests, and its status
    ts_loaded         \* the last ts.load_junit call: its report, the suite before
                      \* it and whether it raised; or None

testVars == <<tc, tc_report, ts, ts_loaded>>

\* bob/shadow.py: one ShadowBatch and one call of its shadow() method.
VARIABLES
    shadowBatch,      \* the fields of the ShadowBatch object
    sh_pc,            \* the phase of shadow() about to execute
    sh_i,             \* _commitShadows: the position of its loop in _packageList
    changeSet,        \* _commitShadows: the troves added to its change-set, in order
    doCommit,         \* _commitShadows: its local doCommit
    downstream,       \* per package, the versions setDownstreamVersion was given
    decided,          \* history: per package visited by phase 4, what it found
    repoCalls,        \* history: the calls made to the repository
    sh_outcome        \* how shadow() ended

shadowVars == <<shadowBatch, sh_pc, sh_i, changeSet, doCommit, downstream, decided,
                repoCalls, sh_outcome>>

\* bob/mangle.py: one call of mangleTrove and what it works on.
VARIABLES
    buildcfg,         \* parent.buildcfg: signatureKey, signatureKeyMap, interactive
    cwd,              \* the working directory of the process
    scratch,          \* the scratch directories that exist
    m_pc,             \* the statement of mangleTrove about to execute
    m_pending,        \* the error the finally clause will re-raise, or None
    upstream_co,      \* the checkout in upstream_dir: its tracked paths, or None
    work_co,          \* the checkout in work_dir: its tracked paths, or None
    cloned,           \* what clone_checkout copied, added and removed, or None
    digests,          \* old_digest and new_digest once both are taken, or None
    newTrove,         \* mangleTrove's local newTrove
    m_calls,          \* history: the calls made to the repository and to checkin
    m_outcome         \* how mangleTrove ended

mangleVars == <<buildcfg, cwd, scratch, m_pc, m_pending, upstream_co, work_co, cloned,
                digests, newTrove, m_calls, m_outcome>>

\* bob/mangle.py and bob/macro.py: the recipe filters and macro.expand, applied
\* to one input.
VARIABLES
    filtered          \* the last application: the function, its input and what
                      \* it did; or None

filterVars == <<filtered>>

\* Batch.writeLogs of bob/cook.py, over the units of one job.
VARIABLES
    logJob,           \* the units of the job given to writeLogs
    log_pc,           \* where writeLogs is: "idle", "troveLog", "buildLog", "done"
    log_unit,         \* the position of the unit of the for loop
    mark,             \* the local variable mark
    fetches,          \* getTroveLogs and getTroveBuildLog calls made, in order
    written           \* the items written to trove.log and build.log, per unit

logVars == <<logJob, log_pc, log_unit, mark, fetches, written>>

\* The module-level helpers of bob/shadow.py, applied to one input.
VARIABLES
    helped            \* the last application: the function, its arguments and
                      \* its result; or None

helperVars == <<helped>>
libVars == <<testVars, shadowVars, mangleVars, filterVars, logVars, helperVars>>

batchVars == <<self_bobTroves, self_troves, contextCache, added>>
runVars == <<self_jobId, self_testSuite, handlers, pc, jobId, job, mapping,
             e_value, outcome, calls, monitored>>
procVars == <<procs, signals, stops>>
vars == <<batchVars, runVars, procVars, libVars>>

\* The objects of the other modules, as their constructors leave them.
InitTest ==
    /\ tc = NewTestCase
    /\ tc_report = None
    /\ ts = NewTestSuite
    /\ ts_loaded = None
\* The packages a driver may hand to a ShadowBatch, by name, and their order
\* under sorted().
ShadowNames == {"a:source", "b:source", "c:source"}
NameRank == ("a:source" :> 1) @@ ("b:source" :> 2) @@ ("c:source" :> 3)

\* ShadowBatch(): no packages, every other field None.
NewShadowBatch ==
    [packages |-> {}, packageList |-> None, upstreamTroveCSets |-> None,
     recipeObjs |-> None, newVersions |-> None, oldTroveCSets |-> None]

InitShadow ==
    /\ shadowBatch = NewShadowBatch
    /\ sh_pc = "idle"
    /\ sh_i = 0
    /\ changeSet = <<>>
    /\ doCommit = FALSE
    /\ downstream = [n \in ShadowNames |-> <<>>]
    /\ decided = <<>>
    /\ repoCalls = <<>>
    /\ sh_outcome = NoOutcome
\* The prompt settings and the working directory that mangleTrove finds.
EntryBuildcfg ==
    [signatureKey |-> "key", signatureKeyMap |-> "keymap", interactive |-> TRUE]
EntryCwd == "oldWd"

InitMangle ==
    /\ buildcfg = EntryBuildcfg
    /\ cwd = EntryCwd
    /\ scratch = {}
    /\ m_pc = "idle"
    /\ m_pending = None
    /\ upstream_co = None
    /\ work_co = None
    /\ cloned = None
    /\ digests = None
    /\ newTrove = None
    /\ m_calls = <<>>
    /\ m_outcome = NoOutcome
InitFilter == filtered = None
InitLog ==
    /\ logJob = <<>>
    /\ log_pc = "idle"
    /\ log_unit = 0
    /\ mark = 0
    /\ fetches = <<>>
    /\ written = <<>>
InitHelper == helped = None
InitLib == InitTest /\ InitShadow /\ InitMangle /\ InitFilter /\ InitLog /\ InitHelper

Init ==
    /\ self_bobTroves = <<>>
    /\ self_troves = {}
    /\ contextCache = <<>>
    /\ self_jobId = None
    /\ self_testSuite = None
    /\ handlers = <<"SIG_DFL">>
    /\ pc = "idle"
    /\ jobId = None
    /\ job = None
    /\ mapping = None
    /\ e_value = None
    /\ outcome = NoOutcome
    /\ calls = <<>>
    /\ added = <<>>
    /\ monitored = FALSE
    /\ procs = <<MainProcess>>
    /\ signals = 0
    /\ stops = <<>>
    /\ InitLib

Call(op, args) == [op |-> op, args |-> args]

Pids == 1..Len(procs)
Alive(p) == procs[p].status = "alive"

\* The main process is executing Batch.run or its driver: it is alive and no
\* signal handler is running on top of it.
MainRunning == Alive(1) /\ procs[1].frames = <<>>
At(line) == pc = line /\ MainRunning

\* What SIGTERM does in process p.
Disposition(p) == IF p = 1 THEN Top(handlers) ELSE procs[p].sigterm

\* A stopJob call forks once; the processes are bounded, so a new call starts
\* only while a process is left for its fork.
PendingForks ==
    Cardinality({<<p, i>> \in Pids \X (1..MaxProcs) :
        /\ Alive(p) /\ i <= Len(procs[p].frames) /\ procs[p].frames[i].pc = "L52"})
CanTakeFrame == Len(procs) + PendingForks < MaxProcs

\* SIGTERM reaches process q: the installed handler is called on top of
\* whatever q was executing, or the default action terminates q.
DeliverTerm(ps, q) ==
    IF ps[q].status # "alive" THEN ps
    ELSE IF Disposition(q) = "stopJob"
    THEN [ps EXCEPT ![q].frames = Append(@, NewFrame)]
    ELSE [ps EXCEPT ![q].status = "sigtermed"]

\* SIGKILL reaches process q.
DeliverKill(ps, q) ==
    IF ps[q].status # "alive" THEN ps ELSE [ps EXCEPT ![q].status = "sigkilled"]

\* Process p is executing line `line` of its innermost stopJob call.
InHandler(p, line) ==
    /\ Alive(p)
    /\ procs[p].frames # <<>>
    /\ Top(procs[p].frames).pc = line

SetFrame(p, f) == [procs EXCEPT ![p].frames = ReplaceTop(@, f)]

\* Batch.stop(): the stop request, made if self._jobId is true.
StopIssues_NotNone(selfJobId) == ~IsNone(selfJobId)
StopIssues(selfJobId) == Truthy(selfJobId)

\* What one Batch.stop() call did, and whether the job was in flight then:
\* submitted by run() and monitorJob not yet returned.
StopRecord(by) ==
    [by |-> by, issued |-> StopIssues(self_jobId),
     inFlight |-> ~IsNone(jobId) /\ ~monitored]
StopCalls(by) ==
    IF StopIssues(self_jobId)
    THEN Append(calls, Call("stopJob", <<Val(self_jobId)>>))
    ELSE calls

\* A termination signal is sent to the main process from outside while the
\* handler of Batch.run is installed.  (With the handler that was installed
\* before run() the signal runs no code of bob.)
Signal ==
    /\ signals < MaxSignals
    /\ Alive(1)
    /\ Disposition(1) = "stopJob"
    /\ CanTakeFrame
    /\ signals' = signals + 1
    /\ procs' = DeliverTerm(procs, 1)
    /\ UNCHANGED <<libVars, batchVars, runVars, stops>>

\* stopJob lines 52-53: parent = os.getpid(); pid = os.fork().  The child is a
\* copy of the process standing in the same call, where it runs lines 55-62; it
\* inherits the SIGTERM handler.
HandlerFork ==
    \E p \in Pids :
        /\ InHandler(p, "L52")
        /\ Len(procs) < MaxProcs
        /\ LET child == [parent |-> p, status |-> "alive", exit |-> "",
                         sigterm |-> "stopJob", wpc |-> "L56", reaped |-> FALSE,
                         frames |-> <<>>]
               f == [Top(procs[p].frames) EXCEPT !.pc = "L65", !.pid = Len(procs) + 1]
           IN  procs' = Append(SetFrame(p, f), child)
        /\ UNCHANGED <<libVars, batchVars, runVars, signals, stops>>

\* stopJob lines 64-65: batch.stop(), which calls the service if a job id is set;
\* the call blocks until the service answers.
HandlerStop ==
    \E p \in Pids :
        /\ InHandler(p, "L65")
        /\ stops' = Append(stops, StopRecord(p))
        /\ calls' = StopCalls(p)
        /\ LET f == [Top(procs[p].frames) EXCEPT
                        !.pc = IF StopIssues(self_jobId) THEN "L65rpc" ELSE "L66",
                        !.stopRequested = TRUE]
           IN  procs' = SetFrame(p, f)
        /\ UNCHANGED <<libVars, batchVars, self_jobId, self_testSuite, handlers, pc, jobId,
                       job, mapping, e_value, outcome, monitored, signals>>

\* The service answers the stop request (it may never do so).
HandlerStopReturns ==
    \E p \in Pids :
        /\ InHandler(p, "L65rpc")
        /\ procs' = SetFrame(p, [Top(procs[p].frames) EXCEPT !.pc = "L66"])
        /\ UNCHANGED <<libVars, batchVars, runVars, signals, stops>>

\* stopJob line 66: os.kill(pid, signal.SIGTERM)
HandlerKillWatchdog ==
    \E p \in Pids :
        /\ InHandler(p, "L66")
        /\ LET c == Top(procs[p].frames).pid
               f == [Top(procs[p].frames) EXCEPT !.pc = "L67", !.stoodDown = TRUE]
           IN  /\ (Alive(c) /\ Disposition(c) = "stopJob") => CanTakeFrame
               /\ procs' = DeliverTerm(SetFrame(p, f), c)
        /\ UNCHANGED <<libVars, batchVars, runVars, signals, stops>>

\* stopJob line 67: os.waitpid(pid, 0) returns once the watchdog has ended.
HandlerWait ==
    \E p \in Pids :
        /\ InHandler(p, "L67")
        /\ LET c == Top(procs[p].frames).pid
               f == [Top(procs[p].frames) EXCEPT !.pc = "L68"]
           IN  /\ ~Alive(c)
               /\ procs' = [SetFrame(p, f) EXCEPT ![c].reaped = TRUE]
        /\ UNCHANGED <<libVars, batchVars, runVars, signals, stops>>

\* stopJob line 68: sys.exit('Signalled stop').  SystemExit unwinds every call of
\* the process: the main process leaves Batch.run (if it was in it) and ends
\* with the message; a forked process passes the finally clause of line 62 and
\* ends with os._exit(0).
HandlerExit ==
    \E p \in Pids :
        /\ InHandler(p, "L68")
        /\ procs' = [procs EXCEPT ![p].status = "exited",
                        ![p].exit = IF p = 1 THEN "Signalled stop" ELSE "0"]
        /\ IF p = 1 /\ pc \notin {"idle", "exit"}
           THEN /\ outcome' = Raised([exc |-> "SystemExit", msg |-> "Signalled stop"])
                /\ pc' = "exit"
           ELSE UNCHANGED <<outcome, pc>>
        /\ UNCHANGED <<libVars, batchVars, self_jobId, self_testSuite, handlers, jobId, job,
                       mapping, e_value, calls, monitored, signals, stops>>

\* Process c is executing line `line` of the watchdog body.
InWatchdog(c, line) ==
    /\ Alive(c)
    /\ procs[c].frames = <<>>
    /\ procs[c].wpc = line

\* stopJob line 56, in the child: signal.signal(signal.SIGTERM, signal.SIG_DFL)
WatchdogReset ==
    \E c \in Pids :
        /\ InWatchdog(c, "L56")
        /\ procs' = [procs EXCEPT ![c].sigterm = "SIG_DFL", ![c].wpc = "L57"]
        /\ UNCHANGED <<libVars, batchVars, runVars, signals, stops>>

\* stopJob line 57, in the child: time.sleep(10) returns.
WatchdogSleep ==
    \E c \in Pids :
        /\ InWatchdog(c, "L57")
        /\ procs' = [procs EXCEPT ![c].wpc = "L60"]
        /\ UNCHANGED <<libVars, batchVars, runVars, signals, stops>>

\* The process the watchdog kills: the pid taken by os.getpid() before the fork.
WatchdogTarget_Self(c) == c
WatchdogTarget(c) == procs[c].parent

\* stopJob lines 58-60, in the child: os.kill(parent, signal.SIGKILL)
WatchdogKill ==
    \E c \in Pids :
        /\ InWatchdog(c, "L60")
        /\ procs' = DeliverKill([procs EXCEPT ![c].wpc = "L62"], WatchdogTarget(c))
        /\ UNCHANGED <<libVars, batchVars, runVars, signals, stops>>

\* stopJob line 62, in the child: os._exit(0)
WatchdogExit ==
    \E c \in Pids :
        /\ InWatchdog(c, "L62")
        /\ procs' = [procs EXCEPT ![c].status = "exited", ![c].exit = "0"]
        /\ UNCHANGED <<libVars, batchVars, runVars, signals, stops>>

\* The driver calls Batch.stop() itself, before run() or after it.
DriverStop ==
    /\ MainRunning
    /\ pc \in {"idle", "exit"}
    /\ Cardinality({i \in 1..Len(stops) : stops[i].by = 0}) < MaxStops
    /\ stops' = Append(stops, StopRecord(0))
    /\ calls' = StopCalls(0)
    /\ UNCHANGED <<libVars, batchVars, self_jobId, self_testSuite, handlers, pc, jobId, job,
                   mapping, e_value, outcome, monitored, procs, signals>>

\* Batch.addTrove(bobTrove)
AddTrove ==
    /\ At("idle")
    /\ Len(added) < MaxAdds
    /\ \E bobTrove \in Packages :
         LET b == addTrove([bobTroves |-> self_bobTroves, troves |-> self_troves,
                            contextCache |-> contextCache], bobTrove)
         IN  /\ self_bobTroves' = b.bobTroves
             /\ self_troves' = b.troves
             /\ contextCache' = b.contextCache
             /\ added' = Append(added, bobTrove)
    /\ UNCHANGED <<libVars, runVars, procVars>>

\* lines 161-178: create the job and submit it; the service assigns the id.
RunSubmit ==
    /\ At("idle")
    /\ \E id \in 0..MaxJobId :
         /\ jobId' = Some(id)
         /\ calls' = Append(calls,
                Call("buildJob", <<self_troves, IsolateTroves(self_troves)>>))
    /\ pc' = "L182"
    /\ UNCHANGED <<libVars, batchVars, procVars, self_jobId, self_testSuite, handlers, job, mapping,
                   e_value, outcome, monitored>>

\* line 182: self._jobId = jobId
RunSetJobId ==
    /\ At("L182")
    /\ self_jobId' = jobId
    /\ pc' = "L183"
    /\ UNCHANGED <<libVars, batchVars, procVars, self_testSuite, handlers, jobId, job, mapping,
                   e_value, outcome, calls, monitored>>

\* line 183: pushStopHandler(partial(stopJob, self))
RunPushHandler ==
    /\ At("L183")
    /\ handlers' = pushStopHandler(handlers, "stopJob")
    /\ pc' = "L186"
    /\ UNCHANGED <<libVars, batchVars, procVars, self_jobId, self_testSuite, jobId, job, mapping,
                   e_value, outcome, calls, monitored>>

\* lines 186-193: the client hooks and monitor.monitorJob, which returns when
\* the job is done.
RunMonitorReturns ==
    /\ At("L186")
    /\ monitored' = TRUE
    /\ pc' = "L196"
    /\ UNCHANGED <<libVars, batchVars, procVars, self_jobId, self_testSuite, handlers, jobId, job,
                   mapping, e_value, outcome, calls>>

\* lines 186-193: monitorJob raises (the connection to the service is lost);
\* nothing in run() catches it.
RunMonitorRaises ==
    /\ At("L186")
    /\ outcome' = Raised([exc |-> "MonitorError", msg |-> "connection lost"])
    /\ pc' = "exit"
    /\ UNCHANGED <<libVars, batchVars, procVars, self_jobId, self_testSuite, handlers, jobId, job,
                   mapping, e_value, calls, monitored>>

\* line 196: self._jobId = None
RunClearJobId ==
    /\ At("L196")
    /\ self_jobId' = None
    /\ pc' = "L197"
    /\ UNCHANGED <<libVars, batchVars, procVars, self_testSuite, handlers, jobId, job, mapping,
                   e_value, outcome, calls, monitored>>

\* line 197: popStopHandler()
RunPopHandler ==
    /\ At("L197")
    /\ handlers' = popStopHandler(handlers)
    /\ pc' = "L200"
    /\ UNCHANGED <<libVars, batchVars, procVars, self_jobId, self_testSuite, jobId, job, mapping,
                   e_value, outcome, calls, monitored>>

\* The calls of lines 200-201, after those made before.
HarvestCalls_NoLogs(made, id) == Append(made, Call("getJob", <<id>>))
HarvestCalls(made, id) ==
    Append(Append(made, Call("getJob", <<id>>)), Call("writeLogs", <<id>>))

\* lines 200-201: job = getJob(jobId); self.writeLogs(job)
RunGetJob ==
    /\ At("L200")
    /\ \E j \in JobStates : job' = Some(j)
    /\ calls' = HarvestCalls(calls, Val(jobId))
    /\ pc' = "L204"
    /\ UNCHANGED <<libVars, batchVars, procVars, self_jobId, self_testSuite, handlers, jobId, mapping,
                   e_value, outcome, monitored>>

\* lines 204-212: the error conditions of the job
RunCheckJob ==
    /\ At("L204")
    /\ LET why == JobCheck(Val(job))
       IN  IF IsNone(why)
           THEN pc' = "L215" /\ outcome' = outcome
           ELSE /\ outcome' = Raised(JobFailedError(Val(jobId), Val(why)))
                /\ pc' = "exit"
    /\ UNCHANGED <<libVars, batchVars, procVars, self_jobId, self_testSuite, handlers, jobId, job,
                   mapping, e_value, calls, monitored>>

\* lines 215-217: test.processTests(helper, job); the results are stored only
\* when it returns.
RunProcessTests ==
    /\ At("L215")
    /\ calls' = Append(calls, Call("processTests", <<Val(jobId)>>))
    /\ \E report \in Reports :
         LET got == processTests(report)
         IN  IF got.raised
             THEN /\ outcome' = Raised([exc |-> "NameError",
                                        msg |-> "name 'TEST_FAILURE' is not defined"])
                  /\ pc' = "exit"
                  /\ self_testSuite' = self_testSuite
             ELSE /\ self_testSuite' = Some(got.suite)
                  /\ pc' = "L220"
                  /\ outcome' = outcome
    /\ UNCHANGED <<libVars, batchVars, procVars, self_jobId, handlers, jobId, job, mapping, e_value,
                   monitored>>

\* lines 220-222: bail out without committing if tests failed
RunTestGate ==
    /\ At("L220")
    /\ IF isSuccessful(Val(self_testSuite))
       THEN pc' = "L225" /\ outcome' = outcome
       ELSE outcome' = Raised(TestFailureError) /\ pc' = "exit"
    /\ UNCHANGED <<libVars, batchVars, procVars, self_jobId, self_testSuite, handlers, jobId, job,
                   mapping, e_value, calls, monitored>>

\* job.isCommitting(), which forbids the commit
CommitBlocked_Never(j) == FALSE
CommitBlocked(j) == j.committing

\* lines 225-228: the job must not be committing already
RunCheckCommitting ==
    /\ At("L225")
    /\ IF CommitBlocked(Val(job))
       THEN /\ outcome' = Raised(JobFailedError(Val(jobId), "Job already committing"))
            /\ pc' = "exit"
       ELSE pc' = "L232" /\ outcome' = outcome
    /\ UNCHANGED <<libVars, batchVars, procVars, self_jobId, self_testSuite, handlers, jobId, job,
                   mapping, e_value, calls, monitored>>

\* lines 230-232: getrMakeClient().startCommit([jobId])
RunStartCommit ==
    /\ At("L232")
    /\ calls' = Append(calls, Call("startCommit", <<Val(jobId)>>))
    /\ pc' = "L235"
    /\ UNCHANGED <<libVars, batchVars, procVars, self_jobId, self_testSuite, handlers, jobId, job,
                   mapping, e_value, outcome, monitored>>

\* line 235: mapping = commit.commit(helper, job), which returns ...
RunCommitReturns ==
    /\ At("L235")
    /\ \E m \in Mappings : mapping' = Some(m)
    /\ calls' = Append(calls, Call("commit", <<Val(jobId)>>))
    /\ pc' = "L240"
    /\ UNCHANGED <<libVars, batchVars, procVars, self_jobId, self_testSuite, handlers, jobId, job,
                   e_value, outcome, monitored>>

\* ... or raises, which the except clause of line 236 catches.
RunCommitRaises ==
    /\ At("L235")
    /\ \E e \in CommitErrors(Val(jobId)) : e_value' = Some(e)
    /\ calls' = Append(calls, Call("commit", <<Val(jobId)>>))
    /\ pc' = "L237"
    /\ UNCHANGED <<libVars, batchVars, procVars, self_jobId, self_testSuite, handlers, jobId, job,
                   mapping, outcome, monitored>>

\* What the except clause tells the service.
ExceptClauseCalls_Silent(cs, id, e) == cs
ExceptClauseCalls(cs, id, e) == Append(cs, Call("commitFailed", <<id, Str(e)>>))

\* line 237: getrMakeClient().commitFailed([jobId], str(e_value))
RunCommitFailed ==
    /\ At("L237")
    /\ calls' = ExceptClauseCalls(calls, Val(jobId), Val(e_value))
    /\ pc' = "L238"
    /\ UNCHANGED <<libVars, batchVars, procVars, self_jobId, self_testSuite, handlers, jobId, job,
                   mapping, e_value, outcome, monitored>>

\* line 238: raise
RunReraise ==
    /\ At("L238")
    /\ outcome' = Raised(Val(e_value))
    /\ pc' = "exit"
    /\ UNCHANGED <<libVars, batchVars, procVars, self_jobId, self_testSuite, handlers, jobId, job,
                   mapping, e_value, calls, monitored>>

\* What the else clause tells the service.
ElseClauseCalls_Silent(cs, m) == cs
ElseClauseCalls(cs, m) == Append(cs, Call("commitSucceeded", <<m>>))

\* lines 240-242: getrMakeClient().commitSucceeded(mapping)
RunCommitSucceeded ==
    /\ At("L240")
    /\ calls' = ElseClauseCalls(calls, Val(mapping))
    /\ pc' = "L243"
    /\ UNCHANGED <<libVars, batchVars, procVars, self_jobId, self_testSuite, handlers, jobId, job,
                   mapping, e_value, outcome, monitored>>

\* line 243: return mapping
RunReturn ==
    /\ At("L243")
    /\ outcome' = Returned(Val(mapping))
    /\ pc' = "exit"
    /\ UNCHANGED <<libVars, batchVars, procVars, self_jobId, self_testSuite, handlers, jobId, job,
                   mapping, e_value, calls, monitored>>

\* Batch.run from its first statement to its exit.
RunStep ==
    \/ RunSubmit
    \/ RunSetJobId
    \/ RunPushHandler
    \/ RunMonitorReturns
    \/ RunMonitorRaises
    \/ RunClearJobId
    \/ RunPopHandler
    \/ RunGetJob
    \/ RunCheckJob
    \/ RunProcessTests
    \/ RunTestGate
    \/ RunCheckCommitting
    \/ RunStartCommit
    \/ RunCommitReturns
    \/ RunCommitRaises
    \/ RunCommitFailed
    \/ RunReraise
    \/ RunCommitSucceeded
    \/ RunReturn

\* The life of a Batch in a process that receives no termination signal: the
\* driver adds packages, runs the batch, and may call stop().
Next ==
    \/ AddTrove
    \/ RunStep
    \/ DriverStop

Spec == Init /\ [][Next]_vars

\* A Batch to which the driver has added one package.
InitSignal ==
    /\ \E bobTrove \in Packages :
         LET b == addTrove([bobTroves |-> <<>>, troves |-> {}, contextCache |-> <<>>],
                           bobTrove)
         IN  /\ self_bobTroves = b.bobTroves
             /\ self_troves = b.troves
             /\ contextCache = b.contextCache
             /\ added = <<bobTrove>>
    /\ self_jobId = None
    /\ self_testSuite = None
    /\ handlers = <<"SIG_DFL">>
    /\ pc = "idle"
    /\ jobId = None
    /\ job = None
    /\ mapping = None
    /\ e_value = None
    /\ outcome = NoOutcome
    /\ calls = <<>>
    /\ monitored = FALSE
    /\ procs = <<MainProcess>>
    /\ signals = 0
    /\ stops = <<>>
    /\ InitLib

\* The run of such a Batch in a process that receives termination signals.
NextSignal ==
    \/ RunStep
    \/ Signal
    \/ HandlerFork
    \/ HandlerStop
    \/ HandlerStopReturns
    \/ HandlerKillWatchdog
    \/ HandlerWait
    \/ HandlerExit
    \/ WatchdogReset
    \/ WatchdogSleep
    \/ WatchdogKill
    \/ WatchdogExit

\* Every step of stopJob and of its watchdog is code that runs once the
\* process is scheduled, so each is taken if it stays possible.  The answer of
\* the service to a stop request is not: it may never come.
Fairness ==
    /\ WF_vars(HandlerFork)
    /\ WF_vars(HandlerStop)
    /\ WF_vars(HandlerKillWatchdog)
    /\ WF_vars(HandlerWait)
    /\ WF_vars(HandlerExit)
    /\ WF_vars(WatchdogReset)
    /\ WF_vars(WatchdogSleep)
    /\ WF_vars(WatchdogKill)
    /\ WF_vars(WatchdogExit)

SignalSpec == InitSignal /\ [][NextSignal]_vars /\ Fairness

\* ------------------------------------- bob/test.py: TestCase and TestSuite
cookVars == <<batchVars, runVars, procVars>>

otherThanTest == <<cookVars, shadowVars, mangleVars, filterVars, logVars, helperVars>>

\* tc.add_run(status, duration, configuration, message)
AddRun ==
    /\ \E status \in Statuses, configuration \in Configurations :
         tc' = add_run(tc, status, configuration)
    /\ tc_report' = None
    /\ UNCHANGED <<otherThanTest, ts, ts_loaded>>

\* tc.failing_configurations()
FailingConfigurations ==
    /\ tc_report = None
    /\ tc_report' = Some(failing_configurations(tc.runs))
    /\ UNCHANGED <<otherThanTest, tc, ts, ts_loaded>>

NextTestCase ==
    \/ AddRun
    \/ FailingConfigurations

TestCaseSpec == Init /\ [][NextTestCase]_vars

\* ts.add_test(name, status, duration, configuration, message)
AddTest ==
    /\ \E name \in TestNames, status \in Statuses :
         ts' = add_test(ts, name, status)
    /\ ts_loaded' = None
    /\ UNCHANGED <<otherThanTest, tc, tc_report>>

\* ts.load_junit(fileobj, configuration): the tests before the one that makes
\* it raise have been added when the error leaves the method.
LoadJunit ==
    /\ \E report \in Reports :
         LET got == load_junit(ts, report, 1)
         IN  /\ ts' = got.suite
             /\ ts_loaded' = Some([report |-> report, before |-> ts,
                                   raised |-> got.raised])
    /\ UNCHANGED <<otherThanTest, tc, tc_report>>

NextTestSuite ==
    \/ AddTest
    \/ LoadJunit

TestSuiteSpec == Init /\ [][NextTestSuite]_vars

\* ------------------------------------------------ bob/shadow.py: ShadowBatch
\* sorted(names): the names in increasing order.
RECURSIVE SortedNames(_)
SortedNames(S) ==
    IF S = {} THEN <<>>
    ELSE LET first == CHOOSE n \in S : \A m \in S : NameRank[n] <= NameRank[m]
         IN  <<first>> \o SortedNames(S \ {first})

\* The version of the predecessor that findTroves reports for a package, the
\* candidate made from it by incrementSourceCount, and the version that
\* _createVersion makes when there is no usable predecessor.
OldVersion(name) == [of |-> name, rev |-> "old"]
IncrementedVersion(name) == [of |-> name, rev |-> "old+1"]
CreatedVersion(name) == [of |-> name, rev |-> "created"]

\* What findTroves can report for one query: nothing, a trove on another
\* branch than the target branch, or a trove on the target branch.
Findings == {"missing", "otherBranch", "targetBranch"}

ShadowAt(phase) == sh_pc = phase
RepoCall(op, args) == Append(repoCalls, [op |-> op, args |-> args])
otherThanShadow == <<cookVars, testVars, mangleVars, filterVars, logVars, helperVars>>

\* ShadowBatch.addPackage
AddPackage ==
    /\ ShadowAt("idle")
    /\ \E name \in ShadowNames :
         shadowBatch' = [shadowBatch EXCEPT !.packages = @ \cup {name}]
    /\ UNCHANGED <<otherThanShadow, sh_pc, sh_i, changeSet, doCommit, downstream,
                   decided, repoCalls, sh_outcome>>

\* shadow(), line 59: the batch has no package.
ShortCircuit_Never(packages) == FALSE
ShortCircuit(packages) == packages = {}

\* shadow(), lines 66-71: the phase that follows a phase.
PhaseAfter_Swapped(phase) ==
    CASE phase = "getUpstream" -> "getOld"
      [] phase = "getOld" -> "mangle"
      [] phase = "mangle" -> "commitShadows"
PhaseAfter(phase) ==
    CASE phase = "getUpstream" -> "mangle"
      [] phase = "mangle" -> "getOld"
      [] phase = "getOld" -> "commitShadows"

\* shadow(), lines 59-64: return at once without packages, else sort them.
ShadowEnter ==
    /\ ShadowAt("idle")
    /\ IF ShortCircuit(shadowBatch.packages)
       THEN /\ sh_pc' = "exit"
            /\ sh_outcome' = Returned(None)
            /\ shadowBatch' = shadowBatch
       ELSE /\ sh_pc' = "getUpstream"
            /\ sh_outcome' = sh_outcome
            /\ shadowBatch' = [shadowBatch EXCEPT
                   !.packageList = Some(SortedNames(shadowBatch.packages))]
    /\ UNCHANGED <<otherThanShadow, sh_i, changeSet, doCommit, downstream, decided,
                   repoCalls>>

\* _getUpstreamChangeSets: one createChangeSet for all packages, then the trove
\* change-set of each.
GetUpstreamChangeSets ==
    /\ ShadowAt("getUpstream")
    /\ LET list == Val(shadowBatch.packageList)
       IN  /\ repoCalls' = RepoCall("createChangeSet",
                               [i \in 1..Len(list) |-> [name |-> list[i], rev |-> "upstream"]])
           /\ shadowBatch' = [shadowBatch EXCEPT !.upstreamTroveCSets = Some(list)]
    /\ sh_pc' = PhaseAfter("getUpstream")
    /\ UNCHANGED <<otherThanShadow, sh_i, changeSet, doCommit, downstream, decided,
                   sh_outcome>>

\* _mangleRecipes: one getFileContents for all recipes; each recipe is mangled
\* and loaded.  What is kept of a loaded recipe is whether it declares an
\* upstream snapshot source.
MangleRecipes ==
    /\ ShadowAt("mangle")
    /\ LET list == Val(shadowBatch.packageList)
       IN  /\ repoCalls' = RepoCall("getFileContents", list)
           /\ \E hg \in [1..Len(list) -> BOOLEAN] :
                 shadowBatch' = [shadowBatch EXCEPT !.recipeObjs = Some(hg)]
    /\ sh_pc' = PhaseAfter("mangle")
    /\ UNCHANGED <<otherThanShadow, sh_i, changeSet, doCommit, downstream, decided,
                   sh_outcome>>

\* Line 118 calls mangle(package, recipe), and mangle(parent, trove, recipe) of
\* bob/mangle.py takes three arguments: with that module the call raises
\* TypeError and shadow() ends there.  MangleRecipes above is the call
\* returning, as it does with the two-argument mangle this module was written
\* for.
MangleRecipesRaises ==
    /\ ShadowAt("mangle")
    /\ repoCalls' = RepoCall("getFileContents", Val(shadowBatch.packageList))
    /\ sh_pc' = "exit"
    /\ sh_outcome' = Raised([exc |-> "TypeError", msg |-> "mangle() takes exactly 3 arguments"])
    /\ UNCHANGED <<otherThanShadow, shadowBatch, sh_i, changeSet, doCommit, downstream,
                   decided>>

\* The positions of a sequence of findings that name a usable predecessor.
RECURSIVE OldJob(_, _, _)
OldJob(list, found, i) ==
    IF i > Len(list) THEN <<>>
    ELSE (IF found[i] = "targetBranch" THEN <<OldVersion(list[i])>> ELSE <<>>)
         \o OldJob(list, found, i + 1)

\* _getOldChangeSets: one findTroves for all packages, the candidate new
\* version of each, then one createChangeSet for the predecessors found.
GetOldChangeSets ==
    /\ ShadowAt("getOld")
    /\ LET list == Val(shadowBatch.packageList)
       IN  \E found \in [1..Len(list) -> Findings] :
             /\ repoCalls' = Append(RepoCall("findTroves", list),
                     [op |-> "createChangeSet", args |-> OldJob(list, found, 1)])
             /\ shadowBatch' = [shadowBatch EXCEPT
                    !.newVersions = Some([i \in 1..Len(list) |->
                        IF found[i] = "targetBranch"
                        THEN IncrementedVersion(list[i])
                        ELSE CreatedVersion(list[i])]),
                    !.oldTroveCSets = Some([i \in 1..Len(list) |->
                        IF found[i] = "targetBranch"
                        THEN Some(OldVersion(list[i])) ELSE None])]
    /\ sh_pc' = PhaseAfter("getOld")
    /\ sh_i' = 1
    /\ UNCHANGED <<otherThanShadow, changeSet, doCommit, downstream, decided,
                   sh_outcome>>

\* The version a package is kept at: oldTroveCs.getNewVersion().
KeepVersion_Candidate(oldTroveCs, newVersion) == newVersion
KeepVersion(oldTroveCs, newVersion) == Val(oldTroveCs)

\* _commitShadows, line 211: whether _sourcesIdentical is asked at all.
MayKeep_IgnoreHg(hgSource, oldTroveCs) == ~IsNone(oldTroveCs)
MayKeep(hgSource, oldTroveCs) == ~hgSource /\ ~IsNone(oldTroveCs)

\* doCommit after a package was given a new revision.
DoCommitAfter_Last(before, isLast) == isLast
DoCommitAfter(before, isLast) == TRUE

\* _commitShadows, lines 204-268: one round of the loop.  _sourcesIdentical is
\* only asked when the recipe has no snapshot source and a predecessor exists.
CommitShadowsPackage ==
    /\ ShadowAt("commitShadows")
    /\ sh_i <= Len(Val(shadowBatch.packageList))
    /\ LET package == Val(shadowBatch.packageList)[sh_i]
           hgSource == Val(shadowBatch.recipeObjs)[sh_i]
           oldTroveCs == Val(shadowBatch.oldTroveCSets)[sh_i]
           newVersion == Val(shadowBatch.newVersions)[sh_i]
       IN  \/ /\ MayKeep(hgSource, oldTroveCs)
              /\ \E identical \in BOOLEAN :
                    /\ decided' = Append(decided,
                           [name |-> package, hg |-> hgSource, old |-> oldTroveCs,
                            identical |-> Some(identical)])
                    /\ IF identical
                       THEN /\ downstream' = [downstream EXCEPT
                                   ![package] = Append(@,
                                       KeepVersion(oldTroveCs, newVersion))]
                            /\ UNCHANGED <<changeSet, doCommit>>
                       ELSE /\ changeSet' = Append(changeSet,
                                   [name |-> package, version |-> newVersion])
                            /\ doCommit' = DoCommitAfter(doCommit,
                                   sh_i = Len(Val(shadowBatch.packageList)))
                            /\ downstream' = [downstream EXCEPT
                                   ![package] = Append(@, newVersion)]
           \/ /\ ~MayKeep(hgSource, oldTroveCs)
              /\ decided' = Append(decided,
                     [name |-> package, hg |-> hgSource, old |-> oldTroveCs,
                      identical |-> None])
              /\ changeSet' = Append(changeSet,
                     [name |-> package, version |-> newVersion])
              /\ doCommit' = DoCommitAfter(doCommit,
                     sh_i = Len(Val(shadowBatch.packageList)))
              /\ downstream' = [downstream EXCEPT ![package] = Append(@, newVersion)]
    /\ sh_i' = sh_i + 1
    /\ UNCHANGED <<otherThanShadow, shadowBatch, sh_pc, repoCalls, sh_outcome>>

\* _commitShadows, lines 271-275, nothing to commit: shadow() returns.
CommitShadowsNothing ==
    /\ ShadowAt("commitShadows")
    /\ sh_i > Len(Val(shadowBatch.packageList))
    /\ ~doCommit
    /\ sh_pc' = "exit"
    /\ sh_outcome' = Returned(None)
    /\ UNCHANGED <<otherThanShadow, shadowBatch, sh_i, changeSet, doCommit, downstream,
                   decided, repoCalls>>

\* _commitShadows, lines 271-275: commitChangeSet accepts the change-set.
CommitShadowsCommits ==
    /\ ShadowAt("commitShadows")
    /\ sh_i > Len(Val(shadowBatch.packageList))
    /\ doCommit
    /\ repoCalls' = RepoCall("commitChangeSet", changeSet)
    /\ sh_pc' = "exit"
    /\ sh_outcome' = Returned(None)
    /\ UNCHANGED <<otherThanShadow, shadowBatch, sh_i, changeSet, doCommit, downstream,
                   decided>>

\* _commitShadows, lines 271-275: commitChangeSet refuses the change-set, and
\* its error leaves shadow().
CommitShadowsRaises ==
    /\ ShadowAt("commitShadows")
    /\ sh_i > Len(Val(shadowBatch.packageList))
    /\ doCommit
    /\ repoCalls' = RepoCall("commitChangeSet", changeSet)
    /\ sh_pc' = "exit"
    /\ sh_outcome' = Raised([exc |-> "RepositoryError", msg |-> "commit refused"])
    /\ UNCHANGED <<otherThanShadow, shadowBatch, sh_i, changeSet, doCommit, downstream,
                   decided>>

NextShadow ==
    \/ AddPackage
    \/ ShadowEnter
    \/ GetUpstreamChangeSets
    \/ MangleRecipes
    \/ MangleRecipesRaises
    \/ GetOldChangeSets
    \/ CommitShadowsPackage
    \/ CommitShadowsNothing
    \/ CommitShadowsCommits
    \/ CommitShadowsRaises

ShadowSpec == Init /\ [][NextShadow]_vars

\* ------------------------------------ bob/mangle.py: mangleTrove, clone_checkout
\* The file list of a checkout's CONARY state: each tracked path with its
\* isAutoSource flag.  The recipe is tracked in every checkout and is never
\* auto-sourced.
RecipePath == "pkg.recipe"
OtherPaths == {"fix.patch", "snapshot.tar"}
Checkouts ==
    UNION {[P \cup {RecipePath} ->
               [isAutoSource : BOOLEAN]] : P \in SUBSET OtherPaths}
TrackedCheckouts ==
    {c \in Checkouts : ~c[RecipePath].isAutoSource}

\* clone_checkout(source_dir, dest_dir): the paths copied, the paths handed to
\* checkin.addFiles, the paths handed to checkin.removeFile, and the file list
\* of the destination afterwards.
clone_checkout(source, dest) ==
    LET source_paths == DOMAIN source
        dest_paths == DOMAIN dest
        copied == {path \in source_paths : ~source[path].isAutoSource}
        addedFiles == {path \in source_paths \ dest_paths : ~source[path].isAutoSource}
        removedFiles == dest_paths \ source_paths
    IN  [copied |-> copied, added |-> addedFiles, removed |-> removedFiles,
         dest |-> [path \in (dest_paths \cup addedFiles) \ removedFiles |->
                      IF path \in addedFiles THEN [isAutoSource |-> FALSE]
                      ELSE dest[path]]]

\* The paths digest_checkout reads: the tracked ones that are not auto-sourced.
PlainOf(co) == {path \in DOMAIN co : ~co[path].isAutoSource}

MangleAt(line) == m_pc = line
MangleCall(op) == Append(m_calls, op)
otherThanMangle == <<cookVars, testVars, shadowVars, filterVars, logVars, helperVars>>
mangleEnv == <<buildcfg, cwd, scratch>>
mangleWork == <<upstream_co, work_co, cloned, digests, newTrove>>

\* A statement of the try block raises: control goes to the finally clause,
\* which re-raises the error when it has run.
MangleRaise(error) ==
    /\ m_pending' = Some([exc |-> error])
    /\ m_pc' = "L169"

\* lines 92-107: save the prompt settings, make both scratch directories, note
\* the working directory, and disable the prompts.
MangleEnter ==
    /\ MangleAt("idle")
    /\ scratch' = {"work_dir", "upstream_dir"}
    /\ buildcfg' = [signatureKey |-> "None", signatureKeyMap |-> "{}",
                    interactive |-> FALSE]
    /\ m_pc' = "L110"
    /\ UNCHANGED <<otherThanMangle, cwd, mangleWork, m_pending, m_calls, m_outcome>>

\* lines 110-112: find the upstream source.
MangleFind ==
    /\ MangleAt("L110")
    /\ m_calls' = MangleCall("findTrove")
    /\ \/ m_pc' = "L117" /\ m_pending' = m_pending
       \/ MangleRaise("TroveNotFound")
    /\ UNCHANGED <<otherThanMangle, mangleEnv, mangleWork, m_outcome>>

\* lines 115-120: check the upstream source out and read its recipe.
MangleCheckoutUpstream ==
    /\ MangleAt("L117")
    /\ m_calls' = MangleCall("checkout upstream")
    /\ \/ /\ \E c \in TrackedCheckouts : upstream_co' = Some(c)
          /\ m_pc' = "L125"
          /\ m_pending' = m_pending
       \/ MangleRaise("CheckoutError") /\ upstream_co' = upstream_co
    /\ UNCHANGED <<otherThanMangle, mangleEnv, work_co, cloned, digests, newTrove,
                   m_outcome>>

\* lines 123-129: shadow the source to the internal repository, unless the
\* shadow exists already.
MangleShadow ==
    /\ MangleAt("L125")
    /\ \/ /\ m_calls' = MangleCall("createShadowChangeSet")
          /\ m_pc' = "L134"
          /\ m_pending' = m_pending
       \/ /\ m_calls' = Append(MangleCall("createShadowChangeSet"), "commitChangeSet")
          /\ \/ m_pc' = "L134" /\ m_pending' = m_pending
             \/ MangleRaise("CommitError")
    /\ UNCHANGED <<otherThanMangle, mangleEnv, mangleWork, m_outcome>>

\* lines 132-136: check the shadow out into work_dir and change into it.
MangleCheckoutShadow ==
    /\ MangleAt("L134")
    /\ m_calls' = MangleCall("checkout shadow")
    /\ \/ /\ \E c \in TrackedCheckouts : work_co' = Some(c)
          /\ cwd' = "work_dir"
          /\ m_pc' = "L139"
          /\ m_pending' = m_pending
       \/ MangleRaise("CheckoutError") /\ UNCHANGED <<work_co, cwd>>
    /\ UNCHANGED <<otherThanMangle, buildcfg, scratch, upstream_co, cloned, digests,
                   newTrove, m_outcome>>

\* lines 139-149: digest the checkout, overlay the upstream checkout, write the
\* mangled recipe, digest again.  The digest covers the tracked files, so it
\* changes when a file was added or removed; otherwise it changes or not with
\* the contents.
MangleOverlay ==
    /\ MangleAt("L139")
    /\ \/ LET got == clone_checkout(Val(upstream_co), Val(work_co))
          IN  /\ cloned' = Some([copied |-> got.copied, added |-> got.added,
                                  removed |-> got.removed, before |-> Val(work_co)])
              /\ work_co' = Some(got.dest)
              /\ \E differ \in BOOLEAN :
                    /\ (got.added \cup (got.removed \cap PlainOf(Val(work_co))) # {}
                           => differ)
                    /\ digests' = Some([old |-> "d0",
                                        new |-> IF differ THEN "d1" ELSE "d0"])
              /\ m_pc' = "L150"
              /\ m_pending' = m_pending
       \/ MangleRaise("IOError") /\ UNCHANGED <<cloned, work_co, digests>>
    /\ UNCHANGED <<otherThanMangle, mangleEnv, upstream_co, newTrove, m_calls,
                   m_outcome>>

\* line 150: `if old_digest != new_digest`
NeedsCommit_Always(old_digest, new_digest) == TRUE
NeedsCommit(old_digest, new_digest) == old_digest # new_digest

\* lines 150-165: commit when the digests differ, then read the identity of
\* the checkout.
MangleCommit ==
    /\ MangleAt("L150")
    /\ IF NeedsCommit(Val(digests).old, Val(digests).new)
       THEN /\ m_calls' = MangleCall("commit")
            /\ \/ /\ newTrove' = Some("new version")
                  /\ m_pending' = m_pending
               \/ /\ newTrove' = newTrove
                  /\ m_pending' = Some([exc |-> "RuntimeError"])
       ELSE /\ m_calls' = m_calls
            /\ newTrove' = Some("old version")
            /\ m_pending' = m_pending
    /\ m_pc' = "L169"
    /\ UNCHANGED <<otherThanMangle, mangleEnv, upstream_co, work_co, cloned, digests,
                   m_outcome>>

\* An error raised by a statement of the finally clause leaves mangleTrove at
\* once, in place of the error that was pending.
MangleLeave(error) ==
    /\ m_pc' = "exit"
    /\ m_outcome' = Raised([exc |-> error])

\* finally, lines 169-172: restore the prompt settings, change back to the
\* old working directory.
MangleFinallyChdir ==
    /\ MangleAt("L169")
    /\ buildcfg' = EntryBuildcfg
    /\ \/ cwd' = EntryCwd /\ m_pc' = "L173" /\ m_outcome' = m_outcome
       \/ cwd' = cwd /\ MangleLeave("OSError")
    /\ UNCHANGED <<otherThanMangle, scratch, mangleWork, m_pending, m_calls>>

\* finally, line 173: shutil.rmtree(work_dir)
MangleFinallyRmWork ==
    /\ MangleAt("L173")
    /\ \/ /\ scratch' = scratch \ {"work_dir"}
          /\ m_pc' = "L174"
          /\ m_outcome' = m_outcome
       \/ scratch' = scratch /\ MangleLeave("OSError")
    /\ UNCHANGED <<otherThanMangle, buildcfg, cwd, mangleWork, m_pending, m_calls>>

\* finally, line 174: shutil.rmtree(upstream_dir); then the pending error is
\* re-raised, or lines 176-180 return newTrove.
MangleFinallyRmUpstream ==
    /\ MangleAt("L174")
    /\ \/ /\ scratch' = scratch \ {"upstream_dir"}
          /\ m_pc' = "exit"
          /\ m_outcome' = IF IsNone(m_pending) THEN Returned(newTrove)
                          ELSE Raised(Val(m_pending))
       \/ scratch' = scratch /\ MangleLeave("OSError")
    /\ UNCHANGED <<otherThanMangle, buildcfg, cwd, mangleWork, m_pending, m_calls>>

NextMangle ==
    \/ MangleEnter
    \/ MangleFind
    \/ MangleCheckoutUpstream
    \/ MangleShadow
    \/ MangleCheckoutShadow
    \/ MangleOverlay
    \/ MangleCommit
    \/ MangleFinallyChdir
    \/ MangleFinallyRmWork
    \/ MangleFinallyRmUpstream

MangleSpec == Init /\ [][NextMangle]_vars

\* ------------------------------- bob/mangle.py: the filters; bob/macro.py
\* A recipe is the sequence of its lines.  What counts of a line is which
\* pattern it matches: re_version (an indented `version = ...`), re_source (an
\* indented `x.addMercurialSnapshot(...)`), or neither; a rewritten line is the
\* replacement text of the filter.
LineKinds == {"version", "snapshot", "other"}
Recipes == UNION {[1..n -> LineKinds] : n \in 0..MaxLines}

\* parent.targets: the packages that have a target configuration, with the raw
\* version pattern and the name of the Hg repository each one refers to.
Targets ==
    ("pinned" :> [version |-> <<"%(ver)s">>, hg |-> None])
    @@ ("tracked" :> [version |-> <<"%(ver)s">>, hg |-> Some("repoA")])
    @@ ("dangling" :> [version |-> <<"%(ver)s">>, hg |-> Some("repoB")])
FilterTroves == DOMAIN Targets \cup {"plain"}

\* parent.hg: the table of Hg repositories, name -> (uri, node).
HgTable == ("repoA" :> <<"uri", "node">>)

FilterOk(recipe, warned) == [raised |-> None, warned |-> warned, recipe |-> recipe]
FilterRaised(exc, warned) == [raised |-> Some(exc), warned |-> warned, recipe |-> <<>>]

\* pattern.sub(replacement, recipe): re.sub without a count replaces every
\* match.
Sub(recipe, kind, replacement) ==
    [i \in 1..Len(recipe) |-> IF recipe[i] = kind THEN replacement ELSE recipe[i]]

\* mangle.version.  Line 59 calls macro.expand(rawVersion, parent, trove=trove),
\* and expand(raw, package) of bob/macro.py takes no argument named trove: the
\* call raises TypeError.
version(trove, recipe) ==
    IF trove \notin DOMAIN Targets THEN FilterOk(recipe, FALSE)
    ELSE FilterRaised("TypeError", FALSE)

\* mangle.source.  An undefined repository is warned about at lines 76-78, and
\* line 80 then looks it up in parent.hg all the same.
source(trove, recipe) ==
    IF trove \notin DOMAIN Targets THEN FilterOk(recipe, FALSE)
    ELSE IF IsNone(Targets[trove].hg) THEN FilterOk(recipe, FALSE)
    ELSE LET repo == Val(Targets[trove].hg)
             warned == repo \notin DOMAIN HgTable
         IN  IF repo \notin DOMAIN HgTable THEN FilterRaised("KeyError", warned)
             ELSE FilterOk(Sub(recipe, "snapshot",
                               <<"addMercurialSnapshot", HgTable[repo]>>), warned)

\* mangle.mangle: the filters in the order of their registration.
mangle(trove, recipe) ==
    LET v == version(trove, recipe)
    IN  IF ~IsNone(v.raised) THEN v
        ELSE LET s == source(trove, v.recipe)
             IN  [s EXCEPT !.warned = v.warned \/ s.warned]

\* package.getMangleData() and package.getTargetConfig() of the packages that
\* macro.expand is given: the macros, the Hg table, the repository named.
MangleData == [macros |-> PlanMacros, hg |-> HgTable]
ExpandRaws == {<<"1.0">>, <<"%(ver)s", "b">>}

\* macro.expand(raw, package): the macros it builds and the text it returns.
expand(raw, package) ==
    LET config == IF package \in DOMAIN Targets THEN Some(Targets[package]) ELSE None
        named == ~IsNone(config) /\ ~IsNone(Val(config).hg)
        defined == named /\ Val(Val(config).hg) \in DOMAIN MangleData.hg
        macros == IF defined
                  THEN ("hg" :> <<HgTable[Val(Val(config).hg)][2]>>) @@ MangleData.macros
                  ELSE MangleData.macros
    IN  [raised |-> None, warned |-> named /\ ~defined, macros |-> macros,
         text |-> Interpolate(raw, macros)]

otherThanFilter == <<cookVars, testVars, shadowVars, mangleVars, logVars, helperVars>>

ApplyVersion ==
    /\ \E trove \in FilterTroves, recipe \in Recipes :
         filtered' = Some([fn |-> "version", trove |-> trove, input |-> recipe,
                           got |-> version(trove, recipe)])
    /\ UNCHANGED otherThanFilter

ApplySource ==
    /\ \E trove \in FilterTroves, recipe \in Recipes :
         filtered' = Some([fn |-> "source", trove |-> trove, input |-> recipe,
                           got |-> source(trove, recipe)])
    /\ UNCHANGED otherThanFilter

ApplyMangle ==
    /\ \E trove \in FilterTroves, recipe \in Recipes :
         filtered' = Some([fn |-> "mangle", trove |-> trove, input |-> recipe,
                           got |-> mangle(trove, recipe)])
    /\ UNCHANGED otherThanFilter

ApplyExpand ==
    /\ \E package \in FilterTroves, raw \in ExpandRaws :
         filtered' = Some([fn |-> "expand", trove |-> package, input |-> raw,
                           got |-> expand(raw, package)])
    /\ UNCHANGED otherThanFilter

NextFilter ==
    \/ ApplyVersion
    \/ ApplySource
    \/ ApplyMangle
    \/ ApplyExpand

FilterSpec == Init /\ [][NextFilter]_vars

\* --------------------------------------------- bob/cook.py: Batch.writeLogs
\* A job is the sequence of its units.  The service holds, for each unit, a
\* trove log and a build log of up to MaxItems items; asked for a log from a
\* mark, it returns a batch of the items that follow the mark, or none where
\* the log ends.
LogJobs == {[i \in 1..n |-> i] : n \in 0..MaxUnits}
Batches(from) == IF from < MaxItems THEN 0..(MaxItems - from) ELSE {0}

\* `if not logs: break`
LoopEnds_Never(logs) == FALSE
LoopEnds(logs) == logs = 0

\* The mark after an iteration of the trove-log loop: `mark += len(logs)`.
\* In the build-log loop the mark is first the one the service returned.
NextMark(from, logs) == from + logs

otherThanLog == <<cookVars, testVars, shadowVars, mangleVars, filterVars, helperVars>>

\* The for loop reaches the unit at position i: the trove-log loop starts with
\* mark = 0; past the last unit writeLogs returns.
ToUnit(i) ==
    /\ log_unit' = i
    /\ mark' = 0
    /\ log_pc' = IF i > Len(logJob) THEN "done" ELSE "troveLog"

WriteLogsEnter ==
    /\ log_pc = "idle"
    /\ \E units \in LogJobs :
         /\ logJob' = units
         /\ written' = [i \in 1..Len(units) |-> [trove |-> {}, build |-> {}]]
         /\ log_unit' = 1
         /\ mark' = 0
         /\ log_pc' = IF Len(units) = 0 THEN "done" ELSE "troveLog"
    /\ UNCHANGED <<otherThanLog, fetches>>

\* One iteration of the loop of lines 290-302.
FetchTroveLog ==
    /\ log_pc = "troveLog"
    /\ \E logs \in Batches(mark) :
         /\ fetches' = Append(fetches, [unit |-> log_unit, log |-> "trove",
                                        mark |-> mark, logs |-> logs])
         /\ IF LoopEnds(logs)
            THEN /\ log_pc' = "buildLog"
                 /\ mark' = 0
                 /\ UNCHANGED written
            ELSE /\ log_pc' = "troveLog"
                 /\ mark' = NextMark(mark, logs)
                 /\ written' = [written EXCEPT ![log_unit].trove =
                                    @ \cup ((mark + 1)..(mark + logs))]
    /\ UNCHANGED <<otherThanLog, logJob, log_unit>>

\* One iteration of the loop of lines 305-317.  The service returns a mark
\* with the batch and line 306 assigns it to mark: the service echoes the mark
\* it was given or returns the position after the batch.
FetchBuildLog ==
    /\ log_pc = "buildLog"
    /\ \E logs \in Batches(mark) :
       \E returned \in {mark, mark + logs} :
         /\ fetches' = Append(fetches, [unit |-> log_unit, log |-> "build",
                                        mark |-> mark, logs |-> logs])
         /\ IF LoopEnds(logs)
            THEN /\ ToUnit(log_unit + 1)
                 /\ UNCHANGED written
            ELSE /\ log_pc' = "buildLog"
                 /\ mark' = NextMark(returned, logs)
                 /\ written' = [written EXCEPT ![log_unit].build =
                                    @ \cup ((mark + 1)..(mark + logs))]
                 /\ UNCHANGED log_unit
    /\ UNCHANGED <<otherThanLog, logJob>>

NextLog ==
    \/ WriteLogsEnter
    \/ FetchTroveLog
    \/ FetchBuildLog

LogSpec == Init /\ [][NextLog]_vars

\* ------------------------------ bob/shadow.py: _createVersion, _sourcesIdentical
\* conary.versions (no source).  A branch is the sequence of its labels, a
\* shadow having one label more than the branch it shadows; a revision is an
\* upstream version and a source count, the count a sequence of numbers with
\* one position per shadow level (1.0-2 is <<2>>, 1.0-2.1 is <<2, 1>>).
Revision(upstreamVersion, count) == [version |-> upstreamVersion, count |-> count]
BranchCreateShadow(branch, label) == Append(branch, label)
BranchCreateSibling(branch, label) == SubSeq(branch, 1, Len(branch) - 1) \o <<label>>
BranchCreateVersion(branch, revision) ==
    [branch |-> branch, version |-> revision.version, count |-> revision.count]
VersionCreateShadow(v, label) == [v EXCEPT !.branch = Append(@, label)]
trailingRevision(v) == Revision(v.version, v.count)

\* Version.incrementSourceCount: the count is padded with zeros up to the
\* shadow level of the branch, and its last number is incremented.
Padded(count, n) == count \o [i \in 1..(n - Len(count)) |-> 0]
incrementSourceCount(v) ==
    LET p == Padded(v.count, Len(v.branch))
    IN  [v EXCEPT !.count = [p EXCEPT ![Len(p)] = @ + 1]]

\* helper.plan.targetLabel
targetLabel == "target@t"

\* The packages given to the helpers: the upstream version of each, on a
\* top-level branch, and its target configuration (None, or siblingClone).
UpstreamVersions ==
    [branch : {<<"up@a">>, <<"up@b">>}, version : {"1.0", "2.0"}, count : {<<1>>, <<2>>}]
SiblingConfigs == {None, Some([siblingClone |-> FALSE]), Some([siblingClone |-> TRUE])}
ShadowedPackages == [upstream : UpstreamVersions, config : SiblingConfigs]
RecipeVersions == {"1.0", "2.0", "3.0"}

\* `config and config.siblingClone`
siblingClone(package) == ~IsNone(package.config) /\ Val(package.config).siblingClone

_getTargetBranch(package, label) ==
    LET sourceBranch == package.upstream.branch
    IN  IF ~siblingClone(package) THEN BranchCreateShadow(sourceBranch, label)
        ELSE BranchCreateSibling(sourceBranch, label)

_createVersion_Fresh(package, recipeVersion) ==
    LET sourceVersion == package.upstream
        newBranch == IF siblingClone(package)
                     THEN BranchCreateSibling(sourceVersion.branch, targetLabel)
                     ELSE BranchCreateShadow(sourceVersion.branch, targetLabel)
    IN  incrementSourceCount(
            BranchCreateVersion(newBranch, Revision(recipeVersion, <<0>>)))
_createVersion(package, recipeVersion) ==
    LET sourceVersion == package.upstream
        sourceBranch == sourceVersion.branch
        sourceRevision == trailingRevision(sourceVersion)
        newVersion ==
            IF siblingClone(package)
            THEN BranchCreateVersion(BranchCreateSibling(sourceBranch, targetLabel),
                                     Revision(recipeVersion, <<0>>))
            ELSE IF sourceRevision.version = recipeVersion
            THEN VersionCreateShadow(sourceVersion, targetLabel)
            ELSE BranchCreateVersion(BranchCreateShadow(sourceBranch, targetLabel),
                                     Revision(recipeVersion, <<0>>))
    IN  incrementSourceCount(newVersion)

\* A trove change-set as _sourcesIdentical reads it: getNewFileList(), the set
\* of its (path, fileId) entries.  A source trove holds its recipe; the
\* content of the old recipe is in the old change-set.
recipeName == "pkg.recipe"
FilePaths == {"a.patch", "b.tar"}
FileIds == {"f1", "f2"}
RecipeTexts == {"r1", "r2"}
RecipeFileId == ("r1" :> "fr1") @@ ("r2" :> "fr2")
PlainFileLists ==
    {l \in SUBSET [path : FilePaths, fileId : FileIds] :
        \A x, y \in l : x.path = y.path => x = y}
NewFileList(plain, recipeText) ==
    plain \cup {[path |-> recipeName, fileId |-> RecipeFileId[recipeText]]}

\* sha1String and File.contents.sha1(): distinct texts have distinct digests.
sha1String(text) == <<"sha1", text>>
ContentsOf(fileId) == CHOOSE t \in RecipeTexts : RecipeFileId[t] = fileId

\* The fileId of the entry of the recipe in a file list.
RecipeEntry(troveCs) ==
    CHOOSE f \in {x.fileId : x \in {y \in troveCs : y.path = recipeName}} : TRUE

_sourcesIdentical_RecipeOnly(oldTroveCs, newTroveCs, newRecipe) ==
    sha1String(ContentsOf(RecipeEntry(oldTroveCs))) = sha1String(newRecipe)
_sourcesIdentical(oldTroveCs, newTroveCs, newRecipe) ==
    LET newList == {x.fileId : x \in {y \in newTroveCs : y.path # recipeName}}
        oldList == {x.fileId : x \in {y \in oldTroveCs : y.path # recipeName}}
    IN  IF newList # oldList THEN FALSE
        ELSE LET oldFileId == RecipeEntry(oldTroveCs)
                 oldDigest == sha1String(ContentsOf(oldFileId))
                 newDigest == sha1String(newRecipe)
             IN  oldDigest = newDigest

otherThanHelper == <<cookVars, testVars, shadowVars, mangleVars, filterVars, logVars>>

ApplyCreateVersion ==
    /\ \E package \in ShadowedPackages, recipeVersion \in RecipeVersions :
         helped' = Some([fn |-> "_createVersion", package |-> package,
                         version |-> recipeVersion,
                         branch |-> _getTargetBranch(package, targetLabel),
                         got |-> _createVersion(package, recipeVersion)])
    /\ UNCHANGED otherThanHelper

\* The new trove change-set is the upstream one: its recipe is the upstream
\* recipe, newRecipe is the mangled text.
ApplySourcesIdentical ==
    /\ \E oldPlain \in PlainFileLists, newPlain \in PlainFileLists,
          oldRecipe \in RecipeTexts, upstreamRecipe \in RecipeTexts,
          newRecipe \in RecipeTexts :
         LET oldTroveCs == NewFileList(oldPlain, oldRecipe)
             newTroveCs == NewFileList(newPlain, upstreamRecipe)
         IN  helped' = Some([fn |-> "_sourcesIdentical", oldTroveCs |-> oldTroveCs,
                             oldRecipe |-> oldRecipe, newTroveCs |-> newTroveCs,
                             newRecipe |-> newRecipe,
                             got |-> _sourcesIdentical(oldTroveCs, newTroveCs, newRecipe)])
    /\ UNCHANGED otherThanHelper

NextHelper ==
    \/ ApplyCreateVersion
    \/ ApplySourcesIdentical

HelperSpec == Init /\ [][NextHelper]_vars

\* ------------------------------------------------------------ the properties
Called(op) == \E i \in 1..Len(calls) : calls[i].op = op
CountCalls(op) == Cardinality({i \in 1..Len(calls) : calls[i].op = op})
\* Some call of op1 precedes some call of op2.
Precedes(op1, op2) ==
    \E i, k \in 1..Len(calls) : i < k /\ calls[i].op = op1 /\ calls[k].op = op2
CommitPathCalled ==
    Called("startCommit") \/ Called("commit") \/ Called("commitSucceeded")
        \/ Called("commitFailed")

\* processTests returned a suite that holds a test above TEST_OK.
SuiteHasFailingTest ==
    /\ ~IsNone(self_testSuite)
    /\ \E n \in DOMAIN Val(self_testSuite).tests :
           Val(self_testSuite).tests[n] > TEST_OK

ExpectedWhy(j) ==
    IF j.failed THEN "Job failed"
    ELSE IF ~j.finished THEN "Job not done"
    ELSE "Job built no troves"
JobUnusable(j) == j.failed \/ ~j.finished \/ j.built = 0

\* C4: when the job that getJob returned is failed, or not finished, or has no
\* built troves, run() goes from the check straight to raising JobFailedError
\* with the job id and the reason of the first condition that applies, and
\* neither processTests nor startCommit nor commit.commit is called.
C4_UnusableJobFails ==
    (~IsNone(job) /\ JobUnusable(Val(job))) =>
        /\ pc \in {"L204", "exit"}
        /\ pc = "exit" =>
               outcome = Raised(JobFailedError(Val(jobId), ExpectedWhy(Val(job))))
        /\ ~Called("processTests")
        /\ ~CommitPathCalled

C4_Witness ==
    /\ self_troves # {}
    /\ ~IsNone(job)
    /\ ~Val(job).failed /\ ~Val(job).finished /\ Val(job).built = 0
    /\ outcome = Raised(JobFailedError(Val(jobId), "Job not done"))

\* The job passed the three checks of lines 204-212 and reports that it is
\* already committing.
UsableButCommitting ==
    ~IsNone(job) /\ ~JobUnusable(Val(job)) /\ Val(job).committing

C6_Claimed_OnlyDeclaredErrors ==
    outcome.kind = "raise" => outcome.error.exc \in DeclaredErrors

\* C7 as claimed: every Batch.stop() call sends a stop request if and only if
\* the job was in flight, whatever id the service gave it.
C7_Claimed_StopIffInFlight ==
    \A i \in 1..Len(stops) : stops[i].issued <=> stops[i].inFlight

\* C8 as claimed: whenever run() has exited, the handler stack is as deep as at
\* entry and the batch's job id is cleared.
C8_Claimed_HandlerPoppedOnExit ==
    pc = "exit" => (handlers = <<"SIG_DFL">> /\ IsNone(self_jobId))

\* stopJob is running in the main process.
Caught == Alive(1) /\ procs[1].frames # <<>>
\* The main process has ended the way stopJob ends it.
Terminated ==
    \/ procs[1].status = "sigkilled"
    \/ procs[1].status = "exited" /\ procs[1].exit = "Signalled stop"

\* C9: a stopJob call tells its watchdog to stand down only after it has
\* called batch.stop(); once stopJob runs in the main process it is never left
\* with the process alive, so the interrupted code of Batch.run does not
\* continue; and the process then ends, with 'Signalled stop' or killed by the
\* watchdog, also when the stop request is never answered.
C9_SignalledProcessTerminates ==
    /\ [](\A p \in Pids : \A i \in 1..Len(procs[p].frames) :
             procs[p].frames[i].stoodDown => procs[p].frames[i].stopRequested)
    /\ [][Caught => /\ procs'[1].frames # <<>>
                    /\ (pc' = pc \/ procs'[1].status # "alive")]_vars
    /\ (Caught ~> Terminated)

\* The watchdog killed the main process while its stop request, made during
\* monitoring, was still unanswered.
C9_Witness ==
    /\ procs[1].status = "sigkilled"
    /\ pc = "L186"
    /\ procs[1].frames # <<>>
    /\ Top(procs[1].frames).pc = "L65rpc"

Range(seq) == {seq[i] : i \in 1..Len(seq)}

\* The context registered for a key, 0 if there is none.
ContextOf(key) ==
    IF \E i \in 1..Len(contextCache) : contextCache[i] = key
    THEN CHOOSE i \in 1..Len(contextCache) :
             /\ contextCache[i] = key
             /\ \A k \in 1..(i - 1) : contextCache[k] # key
    ELSE 0

\* The packages added so far that are built at all.
BuiltPackages ==
    {p \in Range(added) :
        /\ PackageName(p.name) \notin {"product-definition", "platform-definition"}
        /\ \/ IsNone(TargetConfig(PackageName(p.name)))
           \/ ~Val(TargetConfig(PackageName(p.name))).noBuild}

\* C10: the work set holds one tuple for each distinct (name, version, flavor,
\* macros) that was added, however often it was added, and an addTrove call
\* with a package that was added before leaves the work set unchanged.
C10_WorkSetCollapsesDuplicates ==
    /\ [](/\ \A k1, k2 \in 1..Len(contextCache) :
                 contextCache[k1] = contextCache[k2] => k1 = k2
          /\ self_troves =
                 {<<p.name, p.version, p.flavors[i],
                    ContextOf(<<p.flavors[i], guess_search_flavors(p.flavors[i]),
                                AddTroveMacros(TargetConfig(PackageName(p.name)))>>)>> :
                     <<p, i>> \in {<<q, k>> \in BuiltPackages \X (1..2) :
                                     k <= Len(q.flavors)}})
    /\ [][(Len(added') = Len(added) + 1 /\ Top(added') \in Range(added))
              => self_troves' = self_troves]_vars

\* A package that is built was added twice: the list of packages has grown
\* twice, the work set holds one tuple per flavor.
C10_Witness ==
    /\ Len(added) = 2
    /\ added[1] = added[2]
    /\ Len(added[1].flavors) = 2
    /\ Len(self_bobTroves) = 4
    /\ Cardinality(self_troves) = 2

\* A package that the plan excludes from building: by its name, or by the
\* noBuild setting of its target configuration.
Excluded(bobTrove) ==
    \/ PackageName(bobTrove.name) = "product-definition"
    \/ PackageName(bobTrove.name) = "platform-definition"
    \/ LET config == TargetConfig(PackageName(bobTrove.name))
       IN  config # None /\ Val(config).noBuild

\* C11: an addTrove call for an excluded package leaves the work set, the
\* package list and the answer of isEmpty() as they were before the call.
C11_ExcludedAddsNothing ==
    [][(Len(added') = Len(added) + 1 /\ Excluded(added'[Len(added')])) =>
           /\ self_troves' = self_troves
           /\ self_bobTroves' = self_bobTroves
           /\ isEmpty(self_troves') = isEmpty(self_troves)]_vars

\* A package was added, and then one excluded by its noBuild setting only.
C11_Witness ==
    /\ Len(added) = 2
    /\ ~Excluded(added[1])
    /\ added[2].name = "baz:source"
    /\ ~isEmpty(self_troves)
    /\ Len(self_bobTroves) = Len(reduce_flavors("", None, added[1].flavors))

\* The greatest element of a set of statuses, TEST_NONE for the empty set.
MaxStatus(S) ==
    IF S = {} THEN TEST_NONE ELSE CHOOSE m \in S : \A x \in S : x <= m

\* C12 as claimed: the status of a TestCase is the maximum severity over the
\* runs it currently holds, TEST_NONE when it holds none.
C12_Claimed_StatusIsMaxOfRuns ==
    tc.status = MaxStatus({tc.runs[c] : c \in DOMAIN tc.runs})

\* C13: the status of a TestSuite is the maximum of the statuses of its tests,
\* TEST_NONE without tests, and isSuccessful() holds exactly when that maximum
\* is at most TEST_OK.
C13_SuiteStatusIsMaxOfTests ==
    LET worst == MaxStatus({ts.tests[n] : n \in DOMAIN ts.tests})
    IN  /\ ts.status = worst
        /\ isSuccessful(ts) <=> worst \in {TEST_NONE, TEST_OK}
        /\ DOMAIN ts.tests = {} => isSuccessful(ts)

\* A suite of a passing and a failing test, the failing one added first.
C13_Witness ==
    /\ DOMAIN ts.tests = TestNames
    /\ \E n \in TestNames : ts.tests[n] = TEST_OK
    /\ \E n \in TestNames : ts.tests[n] = TEST_FAIL
    /\ ~isSuccessful(ts)
    /\ ts_loaded = None

\* The (factor, value) pairs found in the configuration of a failing run of
\* tc and in the configuration of none of its passing runs.
SuspectPairs ==
    LET failed == {c \in DOMAIN tc.runs : tc.runs[c] \in {TEST_FAIL, TEST_ERROR}}
        passed == DOMAIN tc.runs \ failed
        PairsOf(C) == UNION {{<<k, c[k]>> : k \in DOMAIN c} : c \in C}
    IN  PairsOf(failed) \ PairsOf(passed)
AllRunsFailed ==
    \A c \in DOMAIN tc.runs : tc.runs[c] \in {TEST_FAIL, TEST_ERROR}

\* C14: failing_configurations answers 'Failed in all configurations' when
\* every run failed; otherwise it lists exactly the pairs of a failing run that
\* no passing run has, and answers 'Failed in various configurations' exactly
\* when there is no such pair.
C14_FailingConfigurations ==
    ~IsNone(tc_report) =>
        LET r == Val(tc_report)
        IN  IF AllRunsFailed
            THEN r.text = "Failed in all configurations"
            ELSE /\ r.text # "Failed in all configurations"
                 /\ r.pairs = SuspectPairs
                 /\ r.text = "Failed in various configurations" <=> SuspectPairs = {}

\* A report that names a factor although a failing run shares a value of
\* another factor with a passing run.
C14_Witness ==
    /\ ~IsNone(tc_report)
    /\ Val(tc_report).text = "Failed in these configurations: "
    /\ \E c, d \in DOMAIN tc.runs, k \in ConfigKeys :
           /\ tc.runs[c] > TEST_OK /\ tc.runs[d] = TEST_OK
           /\ k \in DOMAIN c /\ k \in DOMAIN d /\ c[k] = d[k]

\* The status C15 says a <testcase> is recorded with.
ClaimedStatus(kind) ==
    IF kind = "error" THEN TEST_ERROR
    ELSE IF kind = "failure" THEN TEST_FAIL
    ELSE TEST_OK
RECURSIVE ClaimedLoad(_, _, _)
ClaimedLoad(suite, report, i) ==
    IF i > Len(report) THEN suite
    ELSE ClaimedLoad([tests |-> [n \in DOMAIN suite.tests \cup {report[i][1]} |->
                                    IF n = report[i][1]
                                    THEN Max(IF n \in DOMAIN suite.tests
                                             THEN suite.tests[n] ELSE TEST_NONE,
                                             ClaimedStatus(report[i][2]))
                                    ELSE suite.tests[n]],
                      status |-> Max(suite.status, ClaimedStatus(report[i][2]))],
                     report, i + 1)

\* C15 as claimed: load_junit does not raise and leaves the suite with every
\* testcase of the report recorded: ERROR for an error child, FAIL for a
\* failure child, OK otherwise.
C15_Claimed_LoadJunitRecordsAll ==
    ~IsNone(ts_loaded) =>
        /\ ~Val(ts_loaded).raised
        /\ ts = ClaimedLoad(Val(ts_loaded).before, Val(ts_loaded).report, 1)

\* The positions of the commitChangeSet calls in the history of repository
\* calls, and the packages for which phase 4 found that a new revision is due.
CommitCalls == {i \in 1..Len(repoCalls) : repoCalls[i].op = "commitChangeSet"}
NeedsRevision(d) == d.hg \/ IsNone(d.old) \/ d.identical = Some(FALSE)
NewRevisionPackages ==
    {decided[j].name : j \in {k \in 1..Len(decided) : NeedsRevision(decided[k])}}
EntriesFor(cs, name) == {i \in 1..Len(cs) : cs[i].name = name}

\* C16: commitChangeSet is called at most once; when shadow() has exited it was
\* called exactly if some package produced a new revision; and the change-set
\* it was called with holds one trove for each such package and no other.
C16_OneCommitOfTheChanged ==
    /\ Cardinality(CommitCalls) <= 1
    /\ (sh_pc = "exit" /\ shadowBatch.packages # {}) =>
           (CommitCalls # {} <=> NewRevisionPackages # {})
    /\ \A i \in CommitCalls :
           /\ {repoCalls[i].args[j].name : j \in 1..Len(repoCalls[i].args)}
                  = NewRevisionPackages
           /\ Len(repoCalls[i].args) = Cardinality(NewRevisionPackages)

\* Three packages, the first two with a new revision and the last one kept,
\* and the commit made.
C16_Witness ==
    /\ sh_pc = "exit"
    /\ sh_outcome.kind = "return"
    /\ Len(decided) = 3
    /\ NeedsRevision(decided[1]) /\ NeedsRevision(decided[2])
    /\ ~NeedsRevision(decided[3])
    /\ CommitCalls # {}

\* C17: after shadow() has returned, each package of the batch was given a
\* downstream version once, and is either current (the version of its
\* predecessor, no trove in the change-set) or updated (its candidate new
\* version, one trove of that version in the change-set).
C17_CurrentOrUpdated ==
    (sh_pc = "exit" /\ sh_outcome.kind = "return") =>
        \A name \in shadowBatch.packages :
            /\ Len(downstream[name]) = 1
            /\ LET v == downstream[name][1]
                   entries == EntriesFor(changeSet, name)
                   current == /\ v = OldVersion(name)
                              /\ entries = {}
                   updated == /\ v \in {IncrementedVersion(name), CreatedVersion(name)}
                              /\ Cardinality(entries) = 1
                              /\ \A i \in entries : changeSet[i].version = v
               IN  (current \/ updated) /\ ~(current /\ updated)

\* shadow() has returned with one package current and another updated.
C17_Witness ==
    /\ sh_pc = "exit"
    /\ sh_outcome.kind = "return"
    /\ \E n, m \in shadowBatch.packages :
           /\ downstream[n] = <<OldVersion(n)>>
           /\ downstream[m] = <<IncrementedVersion(m)>>
           /\ EntriesFor(changeSet, m) # {}

\* C18: shadow() on a batch without packages returns in one step that makes no
\* repository call and changes no field of the batch; after it, no repository
\* call has been made and the batch is as its constructor left it.
C18_EmptyBatchIsNoOp ==
    /\ [](sh_pc = "exit" /\ shadowBatch.packages = {} =>
             /\ sh_outcome = Returned(None)
             /\ repoCalls = <<>>
             /\ shadowBatch = NewShadowBatch
             /\ \A n \in ShadowNames : downstream[n] = <<>>)
    /\ [][(sh_pc = "idle" /\ sh_pc' # "idle" /\ shadowBatch.packages = {}) =>
             /\ sh_pc' = "exit"
             /\ UNCHANGED <<shadowBatch, repoCalls, downstream, changeSet, doCommit>>]_vars

C18_Witness ==
    /\ sh_pc = "exit"
    /\ shadowBatch.packages = {}
    /\ sh_outcome = Returned(None)

\* C19 as claimed: whenever mangleTrove has exited, by return or by any error,
\* the prompt settings and the working directory are those of entry and no
\* scratch directory is left.
C19_Claimed_CleanupOnEveryExit ==
    m_pc = "exit" =>
        /\ buildcfg = EntryBuildcfg
        /\ cwd = EntryCwd
        /\ scratch = {}

\* The paths of a file list that are not auto-sourced, and those that are.
PlainPaths(co) == {path \in DOMAIN co : ~co[path].isAutoSource}
AutoPaths(co) == {path \in DOMAIN co : co[path].isAutoSource}

\* C20 as claimed: after clone_checkout the destination tracks the same
\* non-auto-sourced paths as the source, and no path that is auto-sourced in
\* the source or in the destination was copied, added or removed.
C20_Claimed_CloneMirrorsSource ==
    ~IsNone(cloned) =>
        LET c == Val(cloned)
        IN  /\ PlainPaths(Val(work_co)) = PlainPaths(Val(upstream_co))
            /\ (AutoPaths(Val(upstream_co)) \cup AutoPaths(c.before))
                   \cap (c.copied \cup c.added \cup c.removed) = {}


\* The positions of the lines of a recipe that match a pattern, and the recipe
\* with only the first of them replaced.
Matches(recipe, kind) == {i \in 1..Len(recipe) : recipe[i] = kind}
FirstMatch(recipe, kind) ==
    CHOOSE i \in Matches(recipe, kind) : \A j \in Matches(recipe, kind) : i <= j
PatternOf(fn) == IF fn = "version" THEN "version" ELSE "snapshot"

\* C21 as claimed: applied to a recipe with several matches of its pattern, for
\* a package it is configured for, the version filter and the source filter
\* return the recipe with the first match rewritten and every other line,
\* later matches included, as it was.
C21_Claimed_OnlyFirstMatchRewritten ==
    ~IsNone(filtered) =>
        LET f == Val(filtered)
            kind == PatternOf(f.fn)
        IN  (/\ f.fn \in {"version", "source"}
             /\ f.trove = "tracked"
             /\ Cardinality(Matches(f.input, kind)) > 1) =>
                /\ IsNone(f.got.raised)
                /\ Len(f.got.recipe) = Len(f.input)
                /\ \A i \in 1..Len(f.input) :
                       (f.got.recipe[i] # f.input[i]) <=> i = FirstMatch(f.input, kind)

\* C22 as claimed: for a package whose target configuration names a repository
\* that the table does not define, the source filter and macro.expand warn and
\* return: the filter a recipe, expand with no hg macro.
C22_Claimed_UndefinedRepoOnlyWarns ==
    ~IsNone(filtered) =>
        LET f == Val(filtered)
        IN  (f.trove = "dangling" /\ f.fn \in {"source", "expand"}) =>
                /\ f.got.warned
                /\ IsNone(f.got.raised)
                /\ f.fn = "expand" => "hg" \notin DOMAIN f.got.macros


\* The fetches of one log of one unit, in order.
FetchesOf(unit, log) ==
    SelectSeq(fetches, LAMBDA f : f.unit = unit /\ f.log = log)
LogKinds == {"trove", "build"}

\* Where the loop over one log of one unit stands: not reached, running, left.
LoopLeft(unit, log) ==
    \/ log_pc = "done"
    \/ log_unit > unit
    \/ log_unit = unit /\ log = "trove" /\ log_pc = "buildLog"

\* C23: for every unit, each of the two fetch loops is left at the first empty
\* batch: an empty batch is the last fetch of that log for that unit, the loop
\* is over right after it, and a loop that is over ended with an empty batch.
C23_LoopEndsAtEmptyBatch ==
    \A unit \in 1..Len(logJob) : \A log \in LogKinds :
        LET fs == FetchesOf(unit, log)
        IN  /\ \A i \in 1..Len(fs) : fs[i].logs = 0 => i = Len(fs)
            /\ (Len(fs) > 0 /\ fs[Len(fs)].logs = 0) <=> LoopLeft(unit, log)

C23_Witness ==
    /\ log_pc = "done"
    /\ Len(logJob) = MaxUnits
    /\ \E unit \in 1..Len(logJob) : \A log \in LogKinds :
           /\ Len(FetchesOf(unit, log)) > 1
           /\ FetchesOf(unit, log)[Len(FetchesOf(unit, log))].logs = 0

\* C24 as claimed: in both loops the first fetch passes mark 0 and every later
\* fetch passes the mark of the fetch before it plus the number of items that
\* fetch returned.
C24_Claimed_MarkAdvancesByCount ==
    \A unit \in 1..Len(logJob) : \A log \in LogKinds :
        LET fs == FetchesOf(unit, log)
        IN  \A i \in 1..Len(fs) :
                fs[i].mark = IF i = 1 THEN 0 ELSE fs[i - 1].mark + fs[i - 1].logs


\* writeLogs was called, and has returned, for the job that run() submitted.
Harvested ==
    /\ ~IsNone(jobId)
    /\ \E i \in 1..Len(calls) : calls[i] = Call("writeLogs", <<Val(jobId)>>)
TerminalErrors == {"JobFailedError", "TestFailureError"}

\* C25: when run() evaluates a terminal condition of the job (lines 204-212,
\* the test gate of line 220, the committing check of line 225), writeLogs has
\* been called for the job and has returned; so it has in every run that ends
\* raising JobFailedError or TestFailureError.
C25_LogsBeforeTerminalChecks ==
    /\ [][(RunCheckJob \/ RunTestGate \/ RunCheckCommitting) => Harvested]_vars
    /\ []((/\ outcome.kind = "raise"
           /\ outcome.error.exc \in TerminalErrors) => Harvested)

\* A run ended raising TestFailureError, the logs written before.
C25_Witness ==
    /\ pc = "exit"
    /\ outcome = Raised(TestFailureError)
    /\ Harvested


\* The target-config macros of a package, each value expanded against the
\* plan's macros; none for a package without a target configuration.
ExpandedTargetMacros(name) ==
    LET config == TargetConfig(PackageName(name))
    IN  IF IsNone(config) THEN EmptyDict
        ELSE [k \in DOMAIN Val(config).macros |->
                  Interpolate(Val(config).macros[k], PlanMacros)]

\* The mapping as claimed: the plan's macros without the skipped keys,
\* overridden by the expanded target-config macros.
ClaimedMacros(name) ==
    ExpandedTargetMacros(name)
    @@ [k \in DOMAIN PlanMacros \ PlanSkipMacros |-> PlanMacros[k]]

\* The mapping as passed: the expanded target-config macros without the
\* skipped keys.
PassedMacros(name) ==
    [k \in DOMAIN ExpandedTargetMacros(name) \ PlanSkipMacros |->
         ExpandedTargetMacros(name)[k]]

\* The macro mapping of the context that a tuple of the work set is built in:
\* the mapping addTrove passed to the context cache to get it.
MacrosOf(tuple) == contextCache[tuple[4]][3]

\* C26 as claimed: the mapping passed for a package is the plan's macros minus
\* the skipped keys, overridden by the package's expanded target-config macros.
C26_Claimed_GlobalMacrosPassed ==
    \A t \in self_troves : MacrosOf(t) = ClaimedMacros(t[1])

\* C26, amended: the mapping passed for a package holds the package's
\* target-config macros whose keys are not in skipMacros, each value expanded
\* against the plan's macros, and nothing else: no macro of the plan itself,
\* and no macro at all for a package without a target configuration.
C26_TargetMacrosPassed ==
    \A t \in self_troves : MacrosOf(t) = PassedMacros(t[1])

\* Two packages are in the work set: one whose target configuration sets a
\* skipped macro and one that is not skipped, and one with no configuration.
C26_Witness ==
    /\ \E t \in self_troves :
           /\ "arch" \in DOMAIN ExpandedTargetMacros(t[1])
           /\ DOMAIN MacrosOf(t) = {"tag"}
    /\ \E t \in self_troves : IsNone(TargetConfig(PackageName(t[1])))


\* The repository calls of a whole shadow() run, in the order of the phases.
PhaseCalls ==
    <<"createChangeSet", "getFileContents", "findTroves", "createChangeSet",
      "commitChangeSet">>
PackageCount ==
    IF IsNone(shadowBatch.packageList) THEN 0 ELSE Len(Val(shadowBatch.packageList))

\* C27: the repository calls of a shadow() run are a prefix of the sequence of
\* the phases, each bulk call is made once for the whole package set, a phase
\* has its result for every package before the next one has any, no package is
\* decided before the predecessors were fetched, and the commit comes after
\* the decision on the last package.
C27_PhasesInOrder ==
    /\ Len(repoCalls) <= Len(PhaseCalls)
    /\ \A i \in 1..Len(repoCalls) : repoCalls[i].op = PhaseCalls[i]
    /\ \A i \in 1..Len(repoCalls) : i <= 3 => Len(repoCalls[i].args) = PackageCount
    /\ ~IsNone(shadowBatch.recipeObjs) =>
           /\ Len(repoCalls) >= 2
           /\ ~IsNone(shadowBatch.upstreamTroveCSets)
           /\ Len(Val(shadowBatch.upstreamTroveCSets)) = PackageCount
    /\ ~IsNone(shadowBatch.newVersions) =>
           /\ Len(repoCalls) >= 4
           /\ ~IsNone(shadowBatch.recipeObjs)
           /\ Len(Val(shadowBatch.recipeObjs)) = PackageCount
    /\ decided # <<>> =>
           /\ Len(repoCalls) >= 4
           /\ ~IsNone(shadowBatch.newVersions)
           /\ Len(Val(shadowBatch.newVersions)) = PackageCount
           /\ Len(Val(shadowBatch.oldTroveCSets)) = PackageCount
    /\ Len(repoCalls) = Len(PhaseCalls) => Len(decided) = PackageCount

\* A run over several packages went through all five phases.
C27_Witness ==
    /\ sh_pc = "exit"
    /\ PackageCount > 1
    /\ Len(repoCalls) = Len(PhaseCalls)
    /\ Len(decided) = PackageCount

\* What phase 4 did with the package at position j of the sorted list.
KeptAt(j) ==
    /\ EntriesFor(changeSet, decided[j].name) = {}
    /\ downstream[decided[j].name] = <<Val(decided[j].old)>>
RevisedAt(j) ==
    /\ Cardinality(EntriesFor(changeSet, decided[j].name)) = 1
    /\ \A i \in EntriesFor(changeSet, decided[j].name) :
           changeSet[i].version = Val(shadowBatch.newVersions)[j]
    /\ downstream[decided[j].name] = <<Val(shadowBatch.newVersions)[j]>>

\* C28: a package that phase 4 has decided is kept at its predecessor's
\* version, with no entry in the change-set, exactly if its recipe declares no
\* snapshot source, a predecessor on the expected branch was found and
\* _sourcesIdentical held; every other package has one entry in the
\* change-set, at its candidate new version.
C28_KeptIffUnchanged ==
    \A j \in 1..Len(decided) :
        LET d == decided[j]
            unchanged == ~d.hg /\ ~IsNone(d.old) /\ d.identical = Some(TRUE)
        IN  /\ d.name = Val(shadowBatch.packageList)[j]
            /\ unchanged => KeptAt(j)
            /\ ~unchanged => RevisedAt(j)
            /\ ~(~IsNone(d.old) /\ KeptAt(j) /\ RevisedAt(j))

\* Phase 4 has kept one package and revised another that has a predecessor
\* and a snapshot source.
C28_Witness ==
    /\ \E j \in 1..Len(decided) :
           ~decided[j].hg /\ decided[j].identical = Some(TRUE) /\ KeptAt(j)
    /\ \E j \in 1..Len(decided) :
           decided[j].hg /\ ~IsNone(decided[j].old) /\ RevisedAt(j)


HelpedBy(fn) == ~IsNone(helped) /\ Val(helped).fn = fn

\* C29: the version _createVersion returns has the recipe's version and is on
\* the package's target branch.  For a sibling clone that is the sibling of
\* the upstream branch at the target label, and the source count is 1; for any
\* other package it is the shadow of the upstream branch at the target label,
\* and the source count is the upstream one with one shadow change (c.1) when
\* the upstream revision has the recipe's version, and 0.1 when it has not.
C29_VersionSelectionRule ==
    HelpedBy("_createVersion") =>
        LET h == Val(helped)
            up == h.package.upstream
            got == h.got
        IN  /\ got.version = h.version
            /\ got.branch = h.branch
            /\ IF h.package.config = Some([siblingClone |-> TRUE])
               THEN /\ got.branch = <<targetLabel>>
                    /\ got.count = <<1>>
               ELSE /\ got.branch = up.branch \o <<targetLabel>>
                    /\ got.count = IF up.version = h.version
                                   THEN up.count \o <<1>>
                                   ELSE <<0, 1>>

\* A package that is no sibling clone, its upstream revision 2 of the recipe's
\* version: the result is revision 2.1 on the shadow.
C29_Witness ==
    /\ HelpedBy("_createVersion")
    /\ IsNone(Val(helped).package.config)
    /\ Val(helped).package.upstream.version = Val(helped).version
    /\ Val(helped).got.count = <<2, 1>>

\* The file identities of the files of a trove change-set other than the
\* recipe.
PlainFileIds(troveCs) == {x.fileId : x \in {y \in troveCs : y.path # recipeName}}

\* C30: _sourcesIdentical returns true exactly if the old and the new trove
\* change-set have the same set of file identities of non-recipe files and the
\* new recipe text is the text of the old recipe (their digests are equal); so
\* with equal file sets and a different new recipe text it returns false.
C30_IdenticalIffSameFilesAndRecipe ==
    HelpedBy("_sourcesIdentical") =>
        LET h == Val(helped)
        IN  h.got <=> (/\ PlainFileIds(h.oldTroveCs) = PlainFileIds(h.newTroveCs)
                       /\ h.newRecipe = h.oldRecipe)

\* Equal sets of file identities, a new recipe text that differs from the old
\* one: the answer is false.
C30_Witness ==
    /\ HelpedBy("_sourcesIdentical")
    /\ PlainFileIds(Val(helped).oldTroveCs) = PlainFileIds(Val(helped).newTroveCs)
    /\ PlainFileIds(Val(helped).oldTroveCs) # {}
    /\ Val(helped).newRecipe # Val(helped).oldRecipe
    /\ ~Val(helped).got


\* mangleTrove has compared the two digests; it has called checkin.commit; the
\* commit reported an error.
Compared == ~IsNone(digests) /\ m_pc \notin {"L139", "L150"}
CommitIssued == \E i \in 1..Len(m_calls) : m_calls[i] = "commit"
CommitReportedError == m_pending = Some([exc |-> "RuntimeError"])

\* C31: both digests are taken in the step that overlays the upstream checkout
\* and writes the recipe, the first of the checkout as it was; checkin.commit
\* is called exactly if the comparison found them different; a commit that
\* reported an error makes mangleTrove raise; and with equal digests
\* mangleTrove, when it returns, returns the identity the checkout had.
C31_CommitIffDigestChanged ==
    /\ ~IsNone(digests) <=> ~IsNone(cloned)
    /\ CommitIssued => Compared
    /\ Compared => (CommitIssued <=> Val(digests).old # Val(digests).new)
    /\ CommitReportedError => CommitIssued
    /\ (m_pc = "exit" /\ CommitReportedError) => m_outcome.kind = "raise"
    /\ (m_pc = "exit" /\ m_outcome.kind = "return" /\ ~CommitIssued) =>
           m_outcome.value = Some("old version")
    /\ (m_pc = "exit" /\ m_outcome.kind = "return" /\ CommitIssued) =>
           m_outcome.value = Some("new version")

\* mangleTrove returned after a commit of a changed checkout.
C31_Witness ==
    /\ m_pc = "exit"
    /\ Compared
    /\ Val(digests).old # Val(digests).new
    /\ CommitIssued
    /\ m_outcome = Returned(Some("new version"))


\* C32 as claimed: a TestCase whose status is above TEST_OK holds a failing
\* run, whatever add_run calls made it.
C32_Claimed_FailingCaseHasFailingRun ==
    tc.status > TEST_OK => get_failing_runs(tc.runs) # {}


\* The versions that exist in the target repository when shadow() has exited:
\* the predecessors that were found, and the troves of a change-set that
\* commitChangeSet accepted.
PredecessorVersions ==
    {Val(decided[j].old) : j \in {k \in 1..Len(decided) : ~IsNone(decided[k].old)}}
CommittedVersions ==
    IF sh_outcome.kind = "return"
    THEN UNION {{repoCalls[i].args[k].version : k \in 1..Len(repoCalls[i].args)} :
                    i \in CommitCalls}
    ELSE {}

Watchdogs == {c \in Pids : procs[c].parent = 1}
StoodDown(c) ==
    \E i \in 1..Len(procs[1].frames) :
        procs[1].frames[i].pid = c /\ procs[1].frames[i].stoodDown

\* C34 as claimed: when the main process has exited with 'Signalled stop',
\* every watchdog its stopJob calls forked was sent SIGTERM by its call, has
\* ended and was reaped.
C34_Claimed_NoWatchdogSurvives ==
    (procs[1].status = "exited" /\ procs[1].exit = "Signalled stop") =>
        \A c \in Watchdogs : StoodDown(c) /\ ~Alive(c) /\ procs[c].reaped

====
